---- MODULE Spec2Model ----
(***************************************************************************)
(* Chit fund ledger of foremenapp/foremen3.py: the MySQL tables the        *)
(* handlers write (ChitGroups, Subscribers, Enrollments, Installments,     *)
(* InstallmentPayments), the one cached connection every Streamlit session *)
(* shares (get_db_connection is @st.cache_resource), and the handlers,     *)
(* split at their SQL statements: execute, then commit or rollback.        *)
(*                                                                         *)
(* db        the tables as the shared connection sees them: committed rows *)
(*           plus the writes of its open transaction                       *)
(* committed the tables as last committed                                  *)
(* pc        per session: where its script run stands                      *)
(* loc       per session: the locals of the running handler, and once it   *)
(*           returns what the page shows (op, res, arg); n counts the      *)
(*           handlers the session has finished, 2 standing for 2 or more   *)
(* nextId    stands for uuid.uuid4(): never handed out twice               *)
(***************************************************************************)
EXTENDS Integers, Sequences, FiniteSets, TLC

VARIABLES db, committed, pc, loc, nextId

vars == <<db, committed, pc, loc, nextId>>

\* ------------------------------------------------------------------ bounds

\* Longest duration of a group in the specifications with several callers.
MaxDuration == 2
\* Longest duration in the schedule specification (Jan-31 + 13 months needs 14).
MaxMonths == 14
\* Once uuid4 has handed out this many identifiers the model inserts no more.
MaxIds == 8

\* Largest assigned chit number a caller enters.
MaxChitNumber == 2

Sessions == {1, 2}
GroupIds == {1, 2}
SubscriberIds == {11, 12}

\* Prize amounts a caller enters (the form's minimum is 0).
Prizes == {0, 500}

NULL == <<>>
Some(v) == <<v>>

Min(a, b) == IF a <= b THEN a ELSE b

\* ---------------------------------------------------------------- calendar

Date(y, m, d) == [year |-> y, month |-> m, day |-> d]

\* calendar.isleap
isleap(year) == (year % 4 = 0) /\ ((year % 100 # 0) \/ (year % 400 = 0))

\* calendar.mdays
mdays(month) ==
    CASE month \in {1, 3, 5, 7, 8, 10, 12} -> 31
      [] month \in {4, 6, 9, 11} -> 30
      [] OTHER -> 28

\* calendar.monthrange(year, month)[1]
monthrange(year, month) ==
    mdays(month) + (IF month = 2 /\ isleap(year) THEN 1 ELSE 0)

\* Mutant: the day is carried over unclamped, and a day past the month's end
\* rolls into the next month (Jan 31 + 1 month = Mar 3).
add_months_overflow(sourcedate, months) ==
    LET month0 == sourcedate.month - 1 + months
        year == sourcedate.year + (month0 \div 12)
        month == (month0 % 12) + 1
        last == monthrange(year, month)
    IN  IF sourcedate.day <= last
        THEN Date(year, month, sourcedate.day)
        ELSE Date(IF month = 12 THEN year + 1 ELSE year,
                  IF month = 12 THEN 1 ELSE month + 1,
                  sourcedate.day - last)

add_months(sourcedate, months) ==
    LET month0 == sourcedate.month - 1 + months
        year == sourcedate.year + (month0 \div 12)
        month == (month0 % 12) + 1
        day == Min(sourcedate.day, monthrange(year, month))
    IN  Date(year, month, day)

\* ------------------------------------------------------------------ tables

EmptyTables ==
    [groups |-> {}, subscribers |-> {}, enrollments |-> {},
     installments |-> {}, payments |-> {}]

\* Mutant: the row is written with isActive FALSE.
ChitGroupRowInactive(id, name, value, num_subscribers, duration, start_date, commission) ==
    [id |-> id, name |-> name, value |-> value,
     numberOfSubscribers |-> num_subscribers, duration |-> duration,
     startDate |-> start_date, foremanCommissionPercentage |-> commission,
     isActive |-> FALSE]

\* INSERT INTO ChitGroups (id, name, value, numberOfSubscribers, duration,
\* startDate, foremanCommissionPercentage, isActive) VALUES (..., True)
ChitGroupRow(id, name, value, num_subscribers, duration, start_date, commission) ==
    [id |-> id, name |-> name, value |-> value,
     numberOfSubscribers |-> num_subscribers, duration |-> duration,
     startDate |-> start_date, foremanCommissionPercentage |-> commission,
     isActive |-> TRUE]

\* A group as insert_group wrote it, named after its id, of value 1000 for
\* two subscribers, no commission given.
GroupRow(id, start_date, duration) ==
    ChitGroupRow(id, id, 1000, 2, duration, start_date, <<>>)

\* Mutant: the row is written with isAuctionConducted TRUE.
InstallmentRowConducted(id, group_id, month_num, due_date) ==
    [id |-> id, groupId |-> group_id, monthNumber |-> month_num,
     dueDate |-> due_date, isAuctionConducted |-> TRUE,
     auctionPrizeAmount |-> <<>>, auctionWinnerId |-> <<>>,
     isCompleted |-> FALSE]

InstallmentRow(id, group_id, month_num, due_date) ==
    [id |-> id, groupId |-> group_id, monthNumber |-> month_num,
     dueDate |-> due_date, isAuctionConducted |-> FALSE,
     auctionPrizeAmount |-> NULL, auctionWinnerId |-> NULL,
     isCompleted |-> FALSE]

\* INSERT INTO Subscribers (id, name, phoneNumber, address, createdDate,
\* isActive) VALUES (..., True)
SubscriberRecord(id, name, phone) ==
    [id |-> id, name |-> name, phoneNumber |-> phone, isActive |-> TRUE]

\* A subscriber as insert_subscriber wrote it, its name and its phone number
\* told by its id.
SubscriberRow(id) == SubscriberRecord(id, id, id)

\* The row's own id (a uuid4) is left out: no statement addresses an
\* enrollment by it, and the unique key (subscriberId, groupId) identifies it.
EnrollmentRow(subscriber_id, group_id, assigned_number) ==
    [subscriberId |-> subscriber_id, groupId |-> group_id,
     assignedChitNumber |-> assigned_number]

PaymentRow(id, installment_id, subscriber_id, amount_paid) ==
    [id |-> id, installmentId |-> installment_id,
     subscriberId |-> subscriber_id, amountPaid |-> amount_paid]

IdsOf(rows) == {r.id : r \in rows}

\* SELECT ... FROM ChitGroups WHERE id = %s, cursor.fetchone(): the row, or
\* None when no row has this id.
get_group_details_by_id(t, g) ==
    IF \E r \in t.groups : r.id = g
    THEN CHOOSE r \in t.groups : r.id = g
    ELSE NULL

\* SELECT ... FROM Installments WHERE groupId = %s
get_installments_for_group(t, g) == {i \in t.installments : i.groupId = g}

\* Mutant: the WHERE e.groupId = %s is lost.
get_enrollments_details_all(t, g) ==
    {e \in t.enrollments : e.subscriberId \in IdsOf(t.subscribers)}

\* SELECT ... FROM Enrollments e JOIN Subscribers s ON e.subscriberId = s.id
\* WHERE e.groupId = %s
get_enrollments_details_for_group(t, g) ==
    {e \in t.enrollments :
        e.groupId = g /\ e.subscriberId \in IdsOf(t.subscribers)}

\* SELECT COUNT(*) FROM Installments WHERE groupId = %s
count_installments(t, g) == Cardinality(get_installments_for_group(t, g))

Idle == [op |-> "none", res |-> "none", arg |-> NULL, n |-> 0]

\* The handler of session s goes on: its locals.
Running(s, op, res, arg) ==
    [op |-> op, res |-> res, arg |-> arg, n |-> loc[s].n]

\* The handler of session s returns: what the page shows.
Shown(s, op, res, arg) ==
    [op |-> op, res |-> res, arg |-> arg, n |-> Min(loc[s].n + 1, 2)]

\* ----------------------------------------------------------- insert_group

\* SELECT ... FROM ChitGroups WHERE isActive = TRUE
get_all_chit_groups(t) == {r \in t.groups : r.isActive}

\* SELECT id, name FROM ChitGroups WHERE isActive = TRUE ORDER BY name: the
\* ids a page's select box offers.
get_group_names_and_ids(t) == {r.id : r \in {x \in t.groups : x.isActive}}

\* Mutant: the test of the required fields looks at the name only.
add_group_valid_name_only(name, value, num_subscribers, duration) == name # 0

\* if name and value > 0 and num_subscribers > 0 and duration > 0 and
\* start_date; name 0 is the empty text, and a date input always holds a date.
add_group_valid(name, value, num_subscribers, duration) ==
    name # 0 /\ value > 0 /\ num_subscribers > 0 /\ duration > 0

\* add_group_form is submitted. The commission text field is empty (NULL) or
\* holds a number, which float() takes whatever its size or sign. With valid
\* fields insert_group runs its INSERT (fails: cursor.execute raises Error),
\* otherwise the warning is shown.
GroupSubmit(s, name, value, num_subscribers, duration, start_date, commission, fails) ==
    /\ pc[s] = "idle"
    /\ nextId <= MaxIds
    /\ LET arg == [name |-> name, value |-> value,
                   num_subscribers |-> num_subscribers,
                   duration |-> duration, commission |-> commission,
                   group_id |-> nextId]
       IN  IF ~add_group_valid(name, value, num_subscribers, duration)
           THEN /\ loc' = [loc EXCEPT ![s] = Shown(s, "group", "invalid", arg)]
                /\ UNCHANGED <<db, pc, nextId>>
           ELSE IF fails
           THEN /\ loc' = [loc EXCEPT ![s] =
                             Running(s, "group", "raised", arg)]
                /\ pc' = [pc EXCEPT ![s] = "group_rollback"]
                /\ UNCHANGED <<db, nextId>>
           ELSE /\ db' = [db EXCEPT !.groups =
                            @ \cup {ChitGroupRow(nextId, name, value,
                                        num_subscribers, duration,
                                        start_date, commission)}]
                /\ loc' = [loc EXCEPT ![s] =
                             Running(s, "group", "inserted", arg)]
                /\ pc' = [pc EXCEPT ![s] = "group_commit"]
                /\ nextId' = nextId + 1
    /\ UNCHANGED committed

\* conn.commit(), st.success, return True.
GroupCommit(s) ==
    /\ pc[s] = "group_commit"
    /\ committed' = db
    /\ pc' = [pc EXCEPT ![s] = "idle"]
    /\ loc' = [loc EXCEPT ![s] = Shown(s, "group", "ok", loc[s].arg)]
    /\ UNCHANGED <<db, nextId>>

\* except Error: st.error, conn.rollback(), return False.
GroupRollback(s) ==
    /\ pc[s] = "group_rollback"
    /\ db' = committed
    /\ pc' = [pc EXCEPT ![s] = "idle"]
    /\ loc' = [loc EXCEPT ![s] = Shown(s, "group", "error", loc[s].arg)]
    /\ UNCHANGED <<committed, nextId>>

\* ------------------------------------------------------ insert_subscriber

\* The unique key of Subscribers: phoneNumber.
subscriber_duplicate(table, phone) == \E r \in table : r.phoneNumber = phone

\* Mutant: the except branch reports every error as a success.
subscriber_outcome_success(errno) == "ok"

\* except Error: errno 1062 is shown as the phone number existing already,
\* any other with the error's own text.
subscriber_outcome(errno) == IF errno = 1062 THEN "duplicate" ELSE "error"

\* add_subscriber_form is submitted (0: a field left empty). With a name and
\* a phone number insert_subscriber runs its INSERT, which the unique key
\* refuses with errno 1062 or which fails otherwise (errno 2013 standing for
\* any other Error); without them the warning is shown.
SubscriberSubmit(s, name, phone, errno) ==
    /\ pc[s] = "idle"
    /\ nextId <= MaxIds
    /\ errno \in {0, 2013}
    /\ LET arg == [name |-> name, phone |-> phone, subscriber_id |-> nextId]
           raised == IF errno # 0 THEN errno
                     ELSE IF subscriber_duplicate(db.subscribers, phone)
                     THEN 1062 ELSE 0
       IN  IF ~(name # 0 /\ phone # 0)
           THEN /\ loc' = [loc EXCEPT ![s] =
                             Shown(s, "subscriber", "invalid", arg)]
                /\ UNCHANGED <<db, pc, nextId>>
           ELSE IF raised # 0
           THEN /\ loc' = [loc EXCEPT ![s] =
                             Running(s, "subscriber", "raised",
                                     arg @@ [errno |-> raised])]
                /\ pc' = [pc EXCEPT ![s] = "subscriber_rollback"]
                /\ UNCHANGED <<db, nextId>>
           ELSE /\ db' = [db EXCEPT !.subscribers =
                            @ \cup {SubscriberRecord(nextId, name, phone)}]
                /\ loc' = [loc EXCEPT ![s] =
                             Running(s, "subscriber", "inserted", arg)]
                /\ pc' = [pc EXCEPT ![s] = "subscriber_commit"]
                /\ nextId' = nextId + 1
    /\ UNCHANGED committed

\* conn.commit(), st.success, return True.
SubscriberCommit(s) ==
    /\ pc[s] = "subscriber_commit"
    /\ committed' = db
    /\ pc' = [pc EXCEPT ![s] = "idle"]
    /\ loc' = [loc EXCEPT ![s] = Shown(s, "subscriber", "ok", loc[s].arg)]
    /\ UNCHANGED <<db, nextId>>

\* except Error: st.error, conn.rollback(), return False.
SubscriberRollback(s) ==
    /\ pc[s] = "subscriber_rollback"
    /\ db' = committed
    /\ pc' = [pc EXCEPT ![s] = "idle"]
    /\ loc' = [loc EXCEPT ![s] =
                 Shown(s, "subscriber", subscriber_outcome(loc[s].arg.errno),
                       [name |-> loc[s].arg.name, phone |-> loc[s].arg.phone,
                        subscriber_id |-> loc[s].arg.subscriber_id])]
    /\ UNCHANGED <<committed, nextId>>

\* ------------------------------------------- generate_installments_for_group

\* Mutant: range(1, duration), one month short.
values_to_insert_short(g, start_date, duration, firstId) ==
    {InstallmentRow(firstId + (month_num - 1), g, month_num,
                    add_months(start_date, month_num - 1))
        : month_num \in 1..(duration - 1)}

\* The rows the loop over range(1, duration + 1) appends.
values_to_insert(g, start_date, duration, firstId) ==
    {InstallmentRow(firstId + (month_num - 1), g, month_num,
                    add_months(start_date, month_num - 1))
        : month_num \in 1..duration}

\* Mutant: the rows before the failing one stay written.
executemany_partial(table, rows, failAt) ==
    IF failAt = 0 THEN table \cup rows
    ELSE table \cup {r \in rows : r.monthNumber < failAt}

\* cursor.executemany of an INSERT ... VALUES: one multi-row statement; when
\* row failAt > 0 is refused the statement writes nothing.
executemany(table, rows, failAt) ==
    IF failAt = 0 THEN table \cup rows ELSE table

\* Mutant: the existence check never finds rows.
gen_exists_never(t, g) == FALSE

\* count > 0
gen_exists(t, g) == count_installments(t, g) > 0

\* The Manage Installments page fills its select box from
\* get_group_names_and_ids, and the Generate button is pressed for group g.
GenSelect(s, g) ==
    /\ pc[s] = "idle"
    /\ g \in get_group_names_and_ids(db)
    /\ pc' = [pc EXCEPT ![s] = "gen_details"]
    /\ loc' = [loc EXCEPT ![s] = Running(s, "generate", "selected", [g |-> g])]
    /\ UNCHANGED <<db, committed, nextId>>

\* The button handler fetches the group's details; without a row, a start
\* date and a positive duration it shows the warning and stops.
GenDetails(s) ==
    /\ pc[s] = "gen_details"
    /\ LET g == loc[s].arg.g
           group_details == get_group_details_by_id(db, g)
       IN  IF /\ group_details # NULL
              /\ group_details.startDate # NULL
              /\ group_details.duration > 0
           THEN /\ pc' = [pc EXCEPT ![s] = "gen_check"]
                /\ loc' = [loc EXCEPT ![s] =
                             Running(s, "generate", "details",
                                 [g |-> g,
                                  start_date |-> group_details.startDate,
                                  duration |-> group_details.duration])]
           ELSE /\ pc' = [pc EXCEPT ![s] = "idle"]
                /\ loc' = [loc EXCEPT ![s] =
                             Shown(s, "generate", "nodetails", [g |-> g])]
    /\ UNCHANGED <<db, committed, nextId>>

\* The head of generate_installments_for_group: the existence check.
GenCheck(s) ==
    /\ pc[s] = "gen_check"
    /\ IF gen_exists(db, loc[s].arg.g)
       THEN /\ pc' = [pc EXCEPT ![s] = "idle"]
            /\ loc' = [loc EXCEPT ![s] =
                         Shown(s, "generate", "rejected", [g |-> loc[s].arg.g])]
       ELSE /\ pc' = [pc EXCEPT ![s] = "gen_insert"]
            /\ loc' = [loc EXCEPT ![s] =
                         Running(s, "generate", "checked", loc[s].arg)]
    /\ UNCHANGED <<db, committed, nextId>>

\* The loop and cursor.executemany. Row failAt > 0 is the one the store
\* refuses; with the group deleted since its details were read the foreign
\* key of Installments refuses the rows (errno 1452).
GenInsert(s) ==
    /\ pc[s] = "gen_insert"
    /\ nextId <= MaxIds
    /\ \E failAt \in 0..loc[s].arg.duration :
         LET a == loc[s].arg
             rows == values_to_insert(a.g, a.start_date, a.duration, nextId)
         IN  /\ a.g \notin IdsOf(db.groups) => failAt # 0
             /\ db' = [db EXCEPT !.installments =
                          executemany(db.installments, rows, failAt)]
             /\ pc' = [pc EXCEPT ![s] =
                          IF failAt = 0 THEN "gen_commit" ELSE "gen_rollback"]
             /\ loc' = [loc EXCEPT ![s] =
                          Running(s, "generate",
                                  IF failAt = 0 THEN "inserted" ELSE "raised", a)]
             /\ nextId' = IF failAt = 0 THEN nextId + a.duration ELSE nextId
    /\ UNCHANGED committed

\* conn.commit(); st.success; return True
GenCommit(s) ==
    /\ pc[s] = "gen_commit"
    /\ committed' = db
    /\ pc' = [pc EXCEPT ![s] = "idle"]
    /\ loc' = [loc EXCEPT ![s] = Shown(s, "generate", "ok", [g |-> loc[s].arg.g])]
    /\ UNCHANGED <<db, nextId>>

\* except Error: st.error; conn.rollback(); return False
GenRollback(s) ==
    /\ pc[s] = "gen_rollback"
    /\ db' = committed
    /\ pc' = [pc EXCEPT ![s] = "idle"]
    /\ loc' = [loc EXCEPT ![s] =
                 Shown(s, "generate", "error", [g |-> loc[s].arg.g])]
    /\ UNCHANGED <<committed, nextId>>

\* --------------------------------------------------------- insert_enrollment

\* The two unique keys of Enrollments, (subscriberId, groupId) and
\* (groupId, assignedChitNumber): the store refuses a row that repeats either.
enrollment_duplicate(table, row) ==
    \E e \in table :
        /\ e.groupId = row.groupId
        /\ \/ e.subscriberId = row.subscriberId
           \/ e.assignedChitNumber = row.assignedChitNumber

\* Mutant: the except branch reports every error as a success.
enroll_outcome_success(errno) == "ok"

\* except Error as e: errno 1062 is shown as the conflict message, any other
\* error with its text; both return False.
enroll_outcome(errno) == IF errno = 1062 THEN "conflict" ELSE "error"

\* SELECT id, name FROM Subscribers WHERE isActive = TRUE ORDER BY name: the
\* ids the subscriber select box offers.
get_subscriber_names_and_ids(t) ==
    {r.id : r \in {x \in t.subscribers : x.isActive}}

\* The foreign keys of Enrollments: a row whose group or whose subscriber is
\* not in the store is refused with errno 1452.
enrollment_orphan(t, row) ==
    \/ row.groupId \notin IdsOf(t.groups)
    \/ row.subscriberId \notin IdsOf(t.subscribers)

\* The errors cursor.execute of the INSERT can raise, 0 standing for none.
\* errno is the error that strikes before the store has looked at the row;
\* otherwise a unique key refuses the row with 1062 and a foreign key with
\* 1452, and a row that breaks both is refused with either.
insert_enrollment_errors(t, row, errno) ==
    IF errno # 0 THEN {errno}
    ELSE LET refused ==
                 (IF enrollment_duplicate(t.enrollments, row)
                  THEN {1062} ELSE {})
                 \cup (IF enrollment_orphan(t, row) THEN {1452} ELSE {})
         IN  IF refused = {} THEN {0} ELSE refused

\* The Manage Enrollments page reads the groups its first select box offers.
EnrollReadGroups(s) ==
    /\ pc[s] = "idle"
    /\ pc' = [pc EXCEPT ![s] = "enroll_subscribers"]
    /\ loc' = [loc EXCEPT ![s] =
                 Running(s, "enroll", "groups",
                         [groups |-> get_group_names_and_ids(db)])]
    /\ UNCHANGED <<db, committed, nextId>>

\* The page reads the subscribers its second select box offers; with either
\* list empty it shows its st.info and no form.
EnrollReadSubscribers(s) ==
    /\ pc[s] = "enroll_subscribers"
    /\ LET group_options == loc[s].arg.groups
           subscriber_options == get_subscriber_names_and_ids(db)
           a == [groups |-> group_options,
                 subscribers |-> subscriber_options]
       IN  IF group_options = {} \/ subscriber_options = {}
           THEN /\ pc' = [pc EXCEPT ![s] = "idle"]
                /\ loc' = [loc EXCEPT ![s] =
                             Shown(s, "enroll", "nooptions", a)]
           ELSE /\ pc' = [pc EXCEPT ![s] = "enroll_form"]
                /\ loc' = [loc EXCEPT ![s] =
                             Running(s, "enroll", "form", a)]
    /\ UNCHANGED <<db, committed, nextId>>

\* Mutant: a number above the group's numberOfSubscribers is refused.
EnrollExecuteBounded(s, subscriber_id, g, assigned_number, errno) ==
    /\ pc[s] = "enroll_form"
    /\ g \in loc[s].arg.groups
    /\ subscriber_id \in loc[s].arg.subscribers
    /\ assigned_number >= 1
    /\ errno \in {0, 2013}
    /\ LET row == EnrollmentRow(subscriber_id, g, assigned_number)
           a == [g |-> g, subscriber_id |-> subscriber_id,
                 assigned_number |-> assigned_number]
           details == get_group_details_by_id(db, g)
       IN  \E raised \in
                 IF /\ errno = 0
                    /\ details # NULL
                    /\ assigned_number > details.numberOfSubscribers
                 THEN {1062}
                 ELSE insert_enrollment_errors(db, row, errno) :
             IF raised # 0
             THEN /\ pc' = [pc EXCEPT ![s] = "enroll_rollback"]
                  /\ loc' = [loc EXCEPT ![s] =
                               Running(s, "enroll", "raised",
                                       a @@ [errno |-> raised])]
                  /\ UNCHANGED db
             ELSE /\ db' = [db EXCEPT !.enrollments = @ \cup {row}]
                  /\ pc' = [pc EXCEPT ![s] = "enroll_commit"]
                  /\ loc' = [loc EXCEPT ![s] =
                               Running(s, "enroll", "inserted", a)]
    /\ UNCHANGED <<committed, nextId>>

\* The form is submitted with a group and a subscriber of the lists the page
\* has read, and insert_enrollment runs cursor.execute of its INSERT, which
\* fails before the store has looked at the row (errno 2013 standing for any
\* Error the store's keys do not raise), which a unique key refuses with errno
\* 1062, or which a foreign key refuses with errno 1452 when the group or the
\* subscriber was deleted since the lists were read.
EnrollExecute(s, subscriber_id, g, assigned_number, errno) ==
    /\ pc[s] = "enroll_form"
    /\ g \in loc[s].arg.groups
    /\ subscriber_id \in loc[s].arg.subscribers
    /\ assigned_number >= 1
    /\ errno \in {0, 2013}
    /\ LET row == EnrollmentRow(subscriber_id, g, assigned_number)
           a == [g |-> g, subscriber_id |-> subscriber_id,
                 assigned_number |-> assigned_number]
       IN  \E raised \in insert_enrollment_errors(db, row, errno) :
             IF raised # 0
             THEN /\ pc' = [pc EXCEPT ![s] = "enroll_rollback"]
                  /\ loc' = [loc EXCEPT ![s] =
                               Running(s, "enroll", "raised",
                                       a @@ [errno |-> raised])]
                  /\ UNCHANGED db
             ELSE /\ db' = [db EXCEPT !.enrollments = @ \cup {row}]
                  /\ pc' = [pc EXCEPT ![s] = "enroll_commit"]
                  /\ loc' = [loc EXCEPT ![s] =
                               Running(s, "enroll", "inserted", a)]
    /\ UNCHANGED <<committed, nextId>>

\* conn.commit(); st.success; return True
EnrollCommit(s) ==
    /\ pc[s] = "enroll_commit"
    /\ committed' = db
    /\ pc' = [pc EXCEPT ![s] = "idle"]
    /\ loc' = [loc EXCEPT ![s] = Shown(s, "enroll", "ok", loc[s].arg)]
    /\ UNCHANGED <<db, nextId>>

\* Mutant: the except branch commits where it should roll back.
EnrollRollbackCommits(s) ==
    /\ pc[s] = "enroll_rollback"
    /\ committed' = db
    /\ pc' = [pc EXCEPT ![s] = "idle"]
    /\ loc' = [loc EXCEPT ![s] =
                 Shown(s, "enroll", enroll_outcome(loc[s].arg.errno),
                       [g |-> loc[s].arg.g,
                        subscriber_id |-> loc[s].arg.subscriber_id,
                        assigned_number |-> loc[s].arg.assigned_number])]
    /\ UNCHANGED <<db, nextId>>

\* except Error: st.error; conn.rollback(); return False
EnrollRollback(s) ==
    /\ pc[s] = "enroll_rollback"
    /\ db' = committed
    /\ pc' = [pc EXCEPT ![s] = "idle"]
    /\ loc' = [loc EXCEPT ![s] =
                 Shown(s, "enroll", enroll_outcome(loc[s].arg.errno),
                       [g |-> loc[s].arg.g,
                        subscriber_id |-> loc[s].arg.subscriber_id,
                        assigned_number |-> loc[s].arg.assigned_number])]
    /\ UNCHANGED <<committed, nextId>>

\* ------------------------------------------------ update_installment_auction

\* Mutant: the UPDATE has lost its WHERE clause.
update_installment_auction_all(table, installment_id, prize_amount, winner) ==
    {[i EXCEPT !.isAuctionConducted = TRUE,
               !.auctionPrizeAmount = Some(prize_amount),
               !.auctionWinnerId = Some(winner)] : i \in table}

\* Mutant: the SET list has lost auctionWinnerId.
update_installment_auction_no_winner(table, installment_id, prize_amount, winner) ==
    {IF i.id = installment_id
     THEN [i EXCEPT !.isAuctionConducted = TRUE,
                    !.auctionPrizeAmount = Some(prize_amount)]
     ELSE i : i \in table}

\* Mutant: the SET list has gained isCompleted = TRUE.
update_installment_auction_completes(table, installment_id, prize_amount, winner) ==
    {IF i.id = installment_id
     THEN [i EXCEPT !.isAuctionConducted = TRUE,
                    !.auctionPrizeAmount = Some(prize_amount),
                    !.auctionWinnerId = Some(winner),
                    !.isCompleted = TRUE]
     ELSE i : i \in table}

\* UPDATE Installments SET isAuctionConducted = TRUE, auctionPrizeAmount = %s,
\* auctionWinnerId = %s WHERE id = %s
update_installment_auction(table, installment_id, prize_amount, winner) ==
    {IF i.id = installment_id
     THEN [i EXCEPT !.isAuctionConducted = TRUE,
                    !.auctionPrizeAmount = Some(prize_amount),
                    !.auctionWinnerId = Some(winner)]
     ELSE i : i \in table}

\* Mutant: the rowcount is never 0.
rowcount_update_one(before, after, installment_id, found_rows) == 1

\* cursor.rowcount after the UPDATE ... WHERE id = %s: the rows the statement
\* matched when the connection was opened with the client flag FOUND_ROWS,
\* the rows it changed otherwise.
rowcount_update(before, after, installment_id, found_rows) ==
    IF found_rows
    THEN Cardinality({i \in before : i.id = installment_id})
    ELSE Cardinality(before \ after)

\* The Manage Installments page fills the select box of its second section
\* from get_group_names_and_ids, and group g is the one selected.
AuctionSelectGroup(s, g) ==
    /\ pc[s] = "idle"
    /\ g \in get_group_names_and_ids(db)
    /\ pc' = [pc EXCEPT ![s] = "auction_installments"]
    /\ loc' = [loc EXCEPT ![s] = Running(s, "auction", "selected", [g |-> g])]
    /\ UNCHANGED <<db, committed, nextId>>

\* The page reads the group's installments; the open ones fill the form's
\* first select box. Without installments, or without open ones, the page
\* shows its st.info and no form.
AuctionReadInstallments(s) ==
    /\ pc[s] = "auction_installments"
    /\ LET g == loc[s].arg.g
           installments == get_installments_for_group(db, g)
           open_installments ==
               {i \in installments : ~i.isAuctionConducted}
       IN  IF installments = {}
           THEN /\ pc' = [pc EXCEPT ![s] = "idle"]
                /\ loc' = [loc EXCEPT ![s] =
                             Shown(s, "auction", "noinstallments", [g |-> g])]
           ELSE IF open_installments = {}
           THEN /\ pc' = [pc EXCEPT ![s] = "idle"]
                /\ loc' = [loc EXCEPT ![s] =
                             Shown(s, "auction", "noopen", [g |-> g])]
           ELSE /\ pc' = [pc EXCEPT ![s] = "auction_enrollments"]
                /\ loc' = [loc EXCEPT ![s] =
                             Running(s, "auction", "installments",
                                 [g |-> g, open |-> IdsOf(open_installments)])]
    /\ UNCHANGED <<db, committed, nextId>>

\* The page reads the group's enrolled subscribers, who fill the form's
\* second select box; without any it shows its st.info and no form.
AuctionReadEnrollments(s) ==
    /\ pc[s] = "auction_enrollments"
    /\ LET g == loc[s].arg.g
           enrolled_subscribers_for_group ==
               get_enrollments_details_for_group(db, g)
       IN  IF enrolled_subscribers_for_group # {}
           THEN /\ pc' = [pc EXCEPT ![s] = "auction_form"]
                /\ loc' = [loc EXCEPT ![s] =
                             Running(s, "auction", "form",
                                 [g |-> g,
                                  open |-> loc[s].arg.open,
                                  enrolled |->
                                     {e.subscriberId :
                                        e \in enrolled_subscribers_for_group}])]
           ELSE /\ pc' = [pc EXCEPT ![s] = "idle"]
                /\ loc' = [loc EXCEPT ![s] =
                             Shown(s, "auction", "nosubscribers", [g |-> g])]
    /\ UNCHANGED <<db, committed, nextId>>

\* The form is submitted: update_installment_auction runs its UPDATE.
AuctionSubmit(s, installment_id, prize_amount, winner) ==
    /\ pc[s] = "auction_form"
    /\ installment_id \in loc[s].arg.open
    /\ winner \in loc[s].arg.enrolled
    /\ prize_amount >= 0
    /\ LET after == update_installment_auction(db.installments,
                        installment_id, prize_amount, winner)
       IN  /\ db' = [db EXCEPT !.installments = after]
           /\ loc' = [loc EXCEPT ![s] =
                        Running(s, "auction", "updated",
                            [g |-> loc[s].arg.g,
                             installment_id |-> installment_id,
                             prize_amount |-> prize_amount,
                             winner |-> winner,
                             rowcount |->
                                rowcount_update(db.installments, after,
                                                installment_id,
                                                db.found_rows)])]
    /\ pc' = [pc EXCEPT ![s] = "auction_commit"]
    /\ UNCHANGED <<committed, nextId>>

\* conn.commit(), then the rowcount decides between st.success, return True
\* and st.warning, return False.
AuctionCommit(s) ==
    /\ pc[s] = "auction_commit"
    /\ committed' = db
    /\ pc' = [pc EXCEPT ![s] = "idle"]
    /\ loc' = [loc EXCEPT ![s] =
                 Shown(s, "auction",
                       IF loc[s].arg.rowcount > 0 THEN "ok" ELSE "notfound",
                       [g |-> loc[s].arg.g,
                        installment_id |-> loc[s].arg.installment_id,
                        prize_amount |-> loc[s].arg.prize_amount,
                        winner |-> loc[s].arg.winner])]
    /\ UNCHANGED <<db, nextId>>

\* The messages update_installment_auction and the form's handler show, by
\* outcome: the st.* call and its text.
auction_message(res) ==
    CASE res = "ok" ->
           [call |-> "success",
            text |-> "Auction details updated successfully!"]
      [] res = "notfound" ->
           [call |-> "warning",
            text |-> "No installment found with the specified ID to update."]
      [] res = "error" ->
           [call |-> "error", text |-> "Error updating auction details: {e}"]
      [] res = "invalid" ->
           [call |-> "warning",
            text |-> "Please select an Installment, Winner, and provide a valid Prize Amount."]

\* The form is submitted with one of its options.
AuctionSubmitForm(s) ==
    /\ pc[s] = "auction_form"
    /\ \E installment_id \in loc[s].arg.open, prize_amount \in Prizes,
          winner \in loc[s].arg.enrolled :
          AuctionSubmit(s, installment_id, prize_amount, winner)

\* The form is submitted and cursor.execute raises Error.
AuctionSubmitFails(s) ==
    /\ pc[s] = "auction_form"
    /\ \E installment_id \in loc[s].arg.open, prize_amount \in Prizes,
          winner \in loc[s].arg.enrolled :
          loc' = [loc EXCEPT ![s] =
                    Running(s, "auction", "raised",
                        [g |-> loc[s].arg.g,
                         installment_id |-> installment_id,
                         prize_amount |-> prize_amount,
                         winner |-> winner])]
    /\ pc' = [pc EXCEPT ![s] = "auction_rollback"]
    /\ UNCHANGED <<db, committed, nextId>>

\* except Error: st.error, conn.rollback(), return False.
AuctionRollback(s) ==
    /\ pc[s] = "auction_rollback"
    /\ db' = committed
    /\ pc' = [pc EXCEPT ![s] = "idle"]
    /\ loc' = [loc EXCEPT ![s] = Shown(s, "auction", "error", loc[s].arg)]
    /\ UNCHANGED <<committed, nextId>>

\* ------------------------------------------------------------ insert_payment

\* Amounts the payment form is submitted with, in the smallest amount the
\* form's step enters (0.01): the widget's minimum 0, one step, and two larger.
Amounts == {0, 1, 250, 700}

\* Mutant: the test is amount_paid >= 0.
payment_amount_valid_zero(amount_paid) == amount_paid >= 0

\* if amount_paid > 0
payment_amount_valid(amount_paid) == amount_paid > 0

\* Mutant: an earlier payment of the same installment and subscriber is
\* replaced.
insert_payment_replace(table, row) ==
    {p \in table : ~(/\ p.installmentId = row.installmentId
                     /\ p.subscriberId = row.subscriberId)} \cup {row}

\* INSERT INTO InstallmentPayments (...) VALUES (...)
insert_payment(table, row) == table \cup {row}

\* The foreign keys of InstallmentPayments: a row whose installment or whose
\* subscriber is not in the store is refused with errno 1452.
payment_orphan(t, row) ==
    \/ row.installmentId \notin IdsOf(t.installments)
    \/ row.subscriberId \notin IdsOf(t.subscribers)

\* The Record Payments page fills its select box from get_group_names_and_ids,
\* and group g is the one selected.
PaymentSelectGroup(s, g) ==
    /\ pc[s] = "idle"
    /\ g \in get_group_names_and_ids(db)
    /\ pc' = [pc EXCEPT ![s] = "payment_installments"]
    /\ loc' = [loc EXCEPT ![s] = Running(s, "payment", "selected", [g |-> g])]
    /\ UNCHANGED <<db, committed, nextId>>

\* The page reads the group's installments, which fill the installment select
\* box; without any it shows its st.info and no form.
PaymentReadInstallments(s) ==
    /\ pc[s] = "payment_installments"
    /\ LET g == loc[s].arg.g
           installments_for_payment == get_installments_for_group(db, g)
       IN  IF installments_for_payment # {}
           THEN /\ pc' = [pc EXCEPT ![s] = "payment_enrollments"]
                /\ loc' = [loc EXCEPT ![s] =
                             Running(s, "payment", "installments",
                                 [g |-> g,
                                  installments |->
                                     IdsOf(installments_for_payment)])]
           ELSE /\ pc' = [pc EXCEPT ![s] = "idle"]
                /\ loc' = [loc EXCEPT ![s] =
                             Shown(s, "payment", "noinstallments", [g |-> g])]
    /\ UNCHANGED <<db, committed, nextId>>

\* The page reads the group's enrolled subscribers, who fill the form's select
\* box; without any it shows its st.info and no form.
PaymentReadEnrollments(s) ==
    /\ pc[s] = "payment_enrollments"
    /\ LET g == loc[s].arg.g
           enrolled_subscribers_for_payment ==
               get_enrollments_details_for_group(db, g)
       IN  IF enrolled_subscribers_for_payment # {}
           THEN /\ pc' = [pc EXCEPT ![s] = "payment_form"]
                /\ loc' = [loc EXCEPT ![s] =
                             Running(s, "payment", "form",
                                 [g |-> g,
                                  installments |-> loc[s].arg.installments,
                                  enrolled |->
                                     {e.subscriberId :
                                        e \in enrolled_subscribers_for_payment}])]
           ELSE /\ pc' = [pc EXCEPT ![s] = "idle"]
                /\ loc' = [loc EXCEPT ![s] =
                             Shown(s, "payment", "nosubscribers", [g |-> g])]
    /\ UNCHANGED <<db, committed, nextId>>

\* The record_payment_form is submitted with an installment and a subscriber
\* of the lists the page has read. With a valid amount insert_payment runs its
\* INSERT, else the warning is shown. cursor.execute raises Error when the
\* statement fails (fails) and when a foreign key refuses the row, its
\* installment or its subscriber deleted since the lists were read.
PaymentSubmit(s, installment_id, subscriber_id, amount_paid, fails) ==
    /\ pc[s] = "payment_form"
    /\ nextId <= MaxIds
    /\ installment_id \in loc[s].arg.installments
    /\ subscriber_id \in loc[s].arg.enrolled
    /\ LET arg == [g |-> loc[s].arg.g, installment_id |-> installment_id,
                   subscriber_id |-> subscriber_id,
                   amount_paid |-> amount_paid, payment_id |-> nextId]
           row == PaymentRow(nextId, installment_id, subscriber_id,
                             amount_paid)
       IN  IF ~payment_amount_valid(amount_paid)
           THEN /\ loc' = [loc EXCEPT ![s] =
                             Shown(s, "payment", "invalid", arg)]
                /\ pc' = [pc EXCEPT ![s] = "idle"]
                /\ UNCHANGED <<db, nextId>>
           ELSE IF fails \/ payment_orphan(db, row)
           THEN /\ loc' = [loc EXCEPT ![s] =
                             Running(s, "payment", "raised", arg)]
                /\ pc' = [pc EXCEPT ![s] = "payment_rollback"]
                /\ UNCHANGED <<db, nextId>>
           ELSE /\ db' = [db EXCEPT !.payments =
                            insert_payment(db.payments, row)]
                /\ loc' = [loc EXCEPT ![s] =
                             Running(s, "payment", "inserted", arg)]
                /\ pc' = [pc EXCEPT ![s] = "payment_commit"]
                /\ nextId' = nextId + 1
    /\ UNCHANGED committed

\* The form is submitted with one of its options.
PaymentSubmitForm(s) ==
    /\ pc[s] = "payment_form"
    /\ \E installment_id \in loc[s].arg.installments,
          subscriber_id \in loc[s].arg.enrolled,
          amount_paid \in Amounts, fails \in BOOLEAN :
          PaymentSubmit(s, installment_id, subscriber_id, amount_paid, fails)

\* conn.commit(), st.success, return True.
PaymentCommit(s) ==
    /\ pc[s] = "payment_commit"
    /\ committed' = db
    /\ pc' = [pc EXCEPT ![s] = "idle"]
    /\ loc' = [loc EXCEPT ![s] = Shown(s, "payment", "ok", loc[s].arg)]
    /\ UNCHANGED <<db, nextId>>

\* except Error: st.error, conn.rollback(), return False.
PaymentRollback(s) ==
    /\ pc[s] = "payment_rollback"
    /\ db' = committed
    /\ pc' = [pc EXCEPT ![s] = "idle"]
    /\ loc' = [loc EXCEPT ![s] = Shown(s, "payment", "error", loc[s].arg)]
    /\ UNCHANGED <<committed, nextId>>

\* ---------------------------------------- get_payment_status_for_installment

\* SUM(ip.amountPaid) over the joined payment rows; NULL when there is none.
RECURSIVE SumAmountPaid(_)
SumAmountPaid(rows) ==
    IF rows = {} THEN NULL
    ELSE LET r == CHOOSE x \in rows : TRUE
             rest == SumAmountPaid(rows \ {r})
         IN  Some(r.amountPaid + (IF rest = NULL THEN 0 ELSE rest[1]))

\* Mutant: the join has lost ip.installmentId = %s.
status_rows_any_installment(t, g, installment_id) ==
    {[subscriberId |-> e.subscriberId,
      assignedChitNumber |-> e.assignedChitNumber,
      totalPaidThisInstallment |->
         SumAmountPaid({ip \in t.payments :
                          e.subscriberId = ip.subscriberId})]
       : e \in {x \in t.enrollments :
                  x.groupId = g /\ x.subscriberId \in IdsOf(t.subscribers)}}

\* SELECT ... SUM(ip.amountPaid) FROM Enrollments e JOIN Subscribers s
\* LEFT JOIN InstallmentPayments ip ON e.subscriberId = ip.subscriberId
\* AND ip.installmentId = %s WHERE e.groupId = %s GROUP BY e.id, ...
status_rows(t, g, installment_id) ==
    {[subscriberId |-> e.subscriberId,
      assignedChitNumber |-> e.assignedChitNumber,
      totalPaidThisInstallment |->
         SumAmountPaid({ip \in t.payments :
                          /\ e.subscriberId = ip.subscriberId
                          /\ ip.installmentId = installment_id})]
       : e \in {x \in t.enrollments :
                  x.groupId = g /\ x.subscriberId \in IdsOf(t.subscribers)}}

\* The loop over the rows: total_paid, status.
status_list(rows) ==
    {LET total_paid == IF row.totalPaidThisInstallment # NULL
                       THEN row.totalPaidThisInstallment[1] ELSE 0
     IN  [subscriberId |-> row.subscriberId,
          assignedChitNumber |-> row.assignedChitNumber,
          Status |-> IF total_paid > 0 THEN "Paid" ELSE "Due",
          TotalPaid |-> total_paid] : row \in rows}

\* SELECT id FROM Installments WHERE groupId = %s AND monthNumber = %s: the
\* rows of the result. The statement has no ORDER BY, and cursor.fetchone()
\* returns whichever of them the store gives first.
installment_of_month(t, g, installment_month_number) ==
    {i \in t.installments :
        i.groupId = g /\ i.monthNumber = installment_month_number}

\* The function when no other statement comes between its two: every value it
\* can return, one for each row fetchone can give.
get_payment_status_for_installment(t, g, installment_month_number) ==
    LET found == installment_of_month(t, g, installment_month_number)
    IN  IF found = {} THEN {[found |-> FALSE, list |-> {}]}
        ELSE {[found |-> TRUE,
               list |-> status_list(status_rows(t, g, installment_row.id))]
                : installment_row \in found}

\* The View Dues & Status page fills its select box from
\* get_group_names_and_ids, and group g is the one selected.
DuesSelectGroup(s, g) ==
    /\ pc[s] = "idle"
    /\ g \in get_group_names_and_ids(db)
    /\ pc' = [pc EXCEPT ![s] = "dues_installments"]
    /\ loc' = [loc EXCEPT ![s] = Running(s, "dues", "selected", [g |-> g])]
    /\ UNCHANGED <<db, committed, nextId>>

\* The page reads the group's installments, whose month numbers fill the
\* month select box; without any it shows its st.info.
DuesReadInstallments(s) ==
    /\ pc[s] = "dues_installments"
    /\ LET g == loc[s].arg.g
           installments_for_dues == get_installments_for_group(db, g)
       IN  IF installments_for_dues # {}
           THEN /\ pc' = [pc EXCEPT ![s] = "dues_form"]
                /\ loc' = [loc EXCEPT ![s] =
                             Running(s, "dues", "installments",
                                 [g |-> g,
                                  months |-> {i.monthNumber :
                                                i \in installments_for_dues}])]
           ELSE /\ pc' = [pc EXCEPT ![s] = "idle"]
                /\ loc' = [loc EXCEPT ![s] =
                             Shown(s, "dues", "noinstallments", [g |-> g])]
    /\ UNCHANGED <<db, committed, nextId>>

\* Show Payment Status is pressed for a month of the list, and
\* get_payment_status_for_installment looks the installment up. Without a row
\* it shows that the month was not found and returns the empty list, for
\* which the page shows that no payment status was found.
DuesFindInstallment(s, month_num) ==
    /\ pc[s] = "dues_form"
    /\ month_num \in loc[s].arg.months
    /\ LET g == loc[s].arg.g
           found == installment_of_month(db, g, month_num)
       IN  IF found = {}
           THEN /\ pc' = [pc EXCEPT ![s] = "idle"]
                /\ loc' = [loc EXCEPT ![s] =
                             Shown(s, "dues", "notfound",
                                   [g |-> g, month_num |-> month_num,
                                    list |-> {}])]
           ELSE \E installment_row \in found :
                  /\ pc' = [pc EXCEPT ![s] = "dues_status"]
                  /\ loc' = [loc EXCEPT ![s] =
                               Running(s, "dues", "found",
                                   [g |-> g, month_num |-> month_num,
                                    installment_id |-> installment_row.id])]
    /\ UNCHANGED <<db, committed, nextId>>

\* The function reads the sums of the installment found and classifies them;
\* the page shows the list, or that no payment status was found when the list
\* is empty.
DuesShow(s) ==
    /\ pc[s] = "dues_status"
    /\ LET a == loc[s].arg
           status_list_result ==
               status_list(status_rows(db, a.g, a.installment_id))
       IN  loc' = [loc EXCEPT ![s] =
                     Shown(s, "dues",
                           IF status_list_result = {} THEN "empty" ELSE "ok",
                           [g |-> a.g, month_num |-> a.month_num,
                            list |-> status_list_result])]
    /\ pc' = [pc EXCEPT ![s] = "idle"]
    /\ UNCHANGED <<db, committed, nextId>>

\* ---------------------------------------------------------------- delete_item

\* SELECT ... FROM Subscribers WHERE isActive = TRUE ORDER BY name
get_all_subscribers(t) == {r \in t.subscribers : r.isActive}

\* The rows of other tables that reference group g.
group_dependents(t, g) ==
    [enrollments |-> {e \in t.enrollments : e.groupId = g},
     installments |-> {i \in t.installments : i.groupId = g},
     payments |-> {p \in t.payments :
                     \E i \in t.installments :
                        i.groupId = g /\ p.installmentId = i.id}]

has_dependents(t, g) ==
    LET d == group_dependents(t, g)
    IN  d.enrollments # {} \/ d.installments # {} \/ d.payments # {}

\* DELETE FROM ChitGroups WHERE id = %s, the foreign keys ON DELETE CASCADE:
\* the group goes with the rows it owns.
delete_group_cascade(t, g) ==
    LET d == group_dependents(t, g)
    IN  [t EXCEPT !.groups = {r \in t.groups : r.id # g},
                  !.enrollments = t.enrollments \ d.enrollments,
                  !.installments = t.installments \ d.installments,
                  !.payments = t.payments \ d.payments]

\* The rows of other tables that reference subscriber u: its enrollments and
\* its payments, the related records the page names.
subscriber_dependents(t, u) ==
    [enrollments |-> {e \in t.enrollments : e.subscriberId = u},
     payments |-> {p \in t.payments : p.subscriberId = u}]

has_subscriber_dependents(t, u) ==
    LET d == subscriber_dependents(t, u)
    IN  d.enrollments # {} \/ d.payments # {}

\* DELETE FROM Subscribers WHERE id = %s, the foreign keys ON DELETE CASCADE:
\* the subscriber goes with its enrollments and its payments.
delete_subscriber_cascade(t, u) ==
    LET d == subscriber_dependents(t, u)
    IN  [t EXCEPT !.subscribers = {r \in t.subscribers : r.id # u},
                  !.enrollments = t.enrollments \ d.enrollments,
                  !.payments = t.payments \ d.payments]

\* The tables the page deletes from.
DeleteTables == {"ChitGroups", "Subscribers"}

\* The rows of table_name.
rows_of(t, table_name) ==
    IF table_name = "ChitGroups" THEN t.groups ELSE t.subscribers

\* The Manage Chit Groups page reads the list its Delete Chit Group section
\* (get_all_chit_groups) or its Delete Subscriber section
\* (get_all_subscribers) is built from; an empty list shows st.info and no
\* section.
DeleteList(s, table_name) ==
    /\ pc[s] = "idle"
    /\ table_name \in DeleteTables
    /\ LET listed == IF table_name = "ChitGroups"
                     THEN IdsOf(get_all_chit_groups(db))
                     ELSE IdsOf(get_all_subscribers(db))
       IN  IF listed # {}
           THEN /\ pc' = [pc EXCEPT ![s] = "delete_form"]
                /\ loc' = [loc EXCEPT ![s] =
                             Running(s, "delete", "listed",
                                     [table_name |-> table_name,
                                      listed |-> listed])]
           ELSE /\ pc' = [pc EXCEPT ![s] = "idle"]
                /\ loc' = [loc EXCEPT ![s] =
                             Shown(s, "delete", "nolist",
                                   [table_name |-> table_name,
                                    item_id |-> NULL])]
    /\ UNCHANGED <<db, committed, nextId>>

\* A row of the list is chosen and confirmed, and delete_item runs its DELETE.
\* cascade is the foreign keys' policy; without it the statement is refused
\* with errno 1451 while rows reference the item. errno 2013 stands for any
\* other Error. A row deleted since the list was read is matched by nothing:
\* the statement succeeds with rowcount 0.
DeleteExecute(s, table_name, item_id, cascade, errno) ==
    /\ pc[s] = "delete_form"
    /\ table_name = loc[s].arg.table_name
    /\ item_id \in loc[s].arg.listed
    /\ errno \in {0, 2013}
    /\ LET refused == /\ ~cascade
                      /\ IF table_name = "ChitGroups"
                         THEN has_dependents(db, item_id)
                         ELSE has_subscriber_dependents(db, item_id)
           raised == IF errno # 0 THEN errno
                     ELSE IF refused THEN 1451 ELSE 0
           a == [table_name |-> table_name, item_id |-> item_id]
       IN  IF raised # 0
           THEN /\ pc' = [pc EXCEPT ![s] = "delete_rollback"]
                /\ loc' = [loc EXCEPT ![s] =
                             Running(s, "delete", "raised",
                                     a @@ [errno |-> raised])]
                /\ UNCHANGED db
           ELSE /\ db' = IF table_name = "ChitGroups"
                         THEN delete_group_cascade(db, item_id)
                         ELSE delete_subscriber_cascade(db, item_id)
                /\ pc' = [pc EXCEPT ![s] = "delete_commit"]
                /\ loc' = [loc EXCEPT ![s] =
                             Running(s, "delete", "deleted",
                                     a @@ [rowcount |->
                                             Cardinality(
                                               {r \in rows_of(db, table_name) :
                                                  r.id = item_id})])]
    /\ UNCHANGED <<committed, nextId>>

\* Mutant: conn.commit() is missing.
DeleteCommitMissing(s) ==
    /\ pc[s] = "delete_commit"
    /\ pc' = [pc EXCEPT ![s] = "idle"]
    /\ loc' = [loc EXCEPT ![s] =
                 Shown(s, "delete",
                       IF loc[s].arg.rowcount > 0 THEN "ok" ELSE "notfound",
                       [table_name |-> loc[s].arg.table_name,
                        item_id |-> loc[s].arg.item_id])]
    /\ UNCHANGED <<db, committed, nextId>>

\* conn.commit(), then the rowcount decides between st.success, return True
\* and st.warning, return False.
DeleteCommit(s) ==
    /\ pc[s] = "delete_commit"
    /\ committed' = db
    /\ pc' = [pc EXCEPT ![s] = "idle"]
    /\ loc' = [loc EXCEPT ![s] =
                 Shown(s, "delete",
                       IF loc[s].arg.rowcount > 0 THEN "ok" ELSE "notfound",
                       [table_name |-> loc[s].arg.table_name,
                        item_id |-> loc[s].arg.item_id])]
    /\ UNCHANGED <<db, nextId>>

\* except Error: st.error (the 1451 text or the error's own), conn.rollback(),
\* return False.
DeleteRollback(s) ==
    /\ pc[s] = "delete_rollback"
    /\ db' = committed
    /\ pc' = [pc EXCEPT ![s] = "idle"]
    /\ loc' = [loc EXCEPT ![s] =
                 Shown(s, "delete",
                       IF loc[s].arg.errno = 1451 THEN "referential"
                                                  ELSE "error",
                       [table_name |-> loc[s].arg.table_name,
                        item_id |-> loc[s].arg.item_id])]
    /\ UNCHANGED <<committed, nextId>>

\* ------------------------------------------- DHARMAREDDY.py: calculations

\* Python's numbers are modelled as exact fractions num/den, den > 0, in
\* lowest terms; a division by zero is its exception.
Abs(a) == IF a < 0 THEN -a ELSE a

RECURSIVE GCD(_, _)
GCD(a, b) == IF b = 0 THEN a ELSE GCD(b, a % b)

Rat(n, d) ==
    LET g == GCD(Abs(n), Abs(d))
        sgn == IF d < 0 THEN -1 ELSE 1
    IN  [num |-> sgn * (n \div g), den |-> sgn * (d \div g)]

FromInt(n) == [num |-> n, den |-> 1]

Zero == FromInt(0)

RatMul(a, b) == Rat(a.num * b.num, a.den * b.den)

RatSub(a, b) == Rat(a.num * b.den - b.num * a.den, a.den * b.den)

ZeroDivisionError == [exception |-> "ZeroDivisionError"]

\* a / b
RatDiv(a, b) ==
    IF b.num = 0 THEN ZeroDivisionError
    ELSE Rat(a.num * b.den, a.den * b.num)

RatMax(a, b) == IF a.num * b.den >= b.num * a.den THEN a ELSE b

\* Mutant: the test of num_members is gone.
calculate_dividend_unguarded(chit_value, winning_bid_discount_percentage, foreman_commission_percentage, num_members) ==
    LET discount_amount ==
            RatMul(chit_value,
                   RatDiv(winning_bid_discount_percentage, FromInt(100)))
        foreman_commission ==
            RatMul(chit_value,
                   RatDiv(foreman_commission_percentage, FromInt(100)))
    IN  RatDiv(RatSub(discount_amount, foreman_commission),
               FromInt(num_members - 1))

\* Mutant: a negative share is clamped to 0.
calculate_dividend_clamped(chit_value, winning_bid_discount_percentage, foreman_commission_percentage, num_members) ==
    LET discount_amount ==
            RatMul(chit_value,
                   RatDiv(winning_bid_discount_percentage, FromInt(100)))
        foreman_commission ==
            RatMul(chit_value,
                   RatDiv(foreman_commission_percentage, FromInt(100)))
    IN  IF num_members > 1
        THEN RatMax(Zero,
                    RatDiv(RatSub(discount_amount, foreman_commission),
                           FromInt(num_members - 1)))
        ELSE Zero

calculate_dividend(chit_value, winning_bid_discount_percentage, foreman_commission_percentage, num_members) ==
    LET discount_amount ==
            RatMul(chit_value,
                   RatDiv(winning_bid_discount_percentage, FromInt(100)))
        foreman_commission ==
            RatMul(chit_value,
                   RatDiv(foreman_commission_percentage, FromInt(100)))
    IN  IF num_members > 1
        THEN RatDiv(RatSub(discount_amount, foreman_commission),
                    FromInt(num_members - 1))
        ELSE Zero

\* calculate_dividend is called with the arguments session s holds.
CalculateDividend(s) ==
    /\ pc[s] = "calculate_dividend"
    /\ pc' = [pc EXCEPT ![s] = "idle"]
    /\ loc' = [loc EXCEPT ![s] =
                 Shown(s, "calculate_dividend",
                       calculate_dividend(
                           loc[s].arg.chit_value,
                           loc[s].arg.winning_bid_discount_percentage,
                           loc[s].arg.foreman_commission_percentage,
                           loc[s].arg.num_members),
                       loc[s].arg)]
    /\ UNCHANGED <<db, committed, nextId>>

\* The next arguments are chosen.
CalculateDividendArgs(s, chit_value, discount, commission, num_members) ==
    /\ pc[s] = "idle"
    /\ pc' = [pc EXCEPT ![s] = "calculate_dividend"]
    /\ loc' = [loc EXCEPT ![s] =
                 Running(s, "calculate_dividend", "called",
                         [chit_value |-> chit_value,
                          winning_bid_discount_percentage |-> discount,
                          foreman_commission_percentage |-> commission,
                          num_members |-> num_members])]
    /\ UNCHANGED <<db, committed, nextId>>

\* Mutant: the division is the other way round.
calculate_installment_inverse(chit_value, duration) ==
    IF duration > 0 THEN RatDiv(FromInt(duration), FromInt(chit_value))
    ELSE Zero

\* chit_value / duration for a positive duration, else 0.
calculate_installment(chit_value, duration) ==
    IF duration > 0 THEN RatDiv(FromInt(chit_value), FromInt(duration))
    ELSE Zero

\* ---------------------------------- DHARMAREDDY.py: the Chit Setup section

\* A row of the Chits table of the DHARMAREDDY database.
ChitRow(chit_id, chit_value, duration, foreman_commission_percentage, installment_amount) ==
    [chit_id |-> chit_id, chit_value |-> chit_value, duration |-> duration,
     foreman_commission_percentage |-> foreman_commission_percentage,
     installment_amount |-> installment_amount]

\* execute_query running an INSERT: executed and committed, return True; a
\* mysql.connector.Error is printed, return False, and the table is as it was.
execute_query(table, row, fails) ==
    IF fails THEN [table |-> table, returned |-> "False"]
    ELSE [table |-> table \cup {row}, returned |-> "True"]

\* Chit values the new_chit_form is submitted with (min_value 1000, step
\* 1000), the largest duration, and foreman commissions (min_value 0.0,
\* max_value 7.0, 5.0 the value the field starts with).
NewChitValues == {1000, 2000}

MaxChitDuration == 3

NewChitCommissions == {FromInt(0), FromInt(5), FromInt(7)}

\* new_chit_form is submitted; chit_id 0 is the empty text. The handler calls
\* execute_query, drops what it returns and shows the success message; its
\* except clause sees no exception, as execute_query lets none out. An INSERT
\* of a chit_id already there fails (the id is the table's unique identifier),
\* any other may fail.
NewChitSubmit(s, chit_id, chit_value, duration, foreman_commission, fails) ==
    /\ pc[s] = "idle"
    /\ (chit_id \in {c.chit_id : c \in db.chits}) => fails
    /\ LET arg == [chit_id |-> chit_id, chit_value |-> chit_value,
                   duration |-> duration,
                   foreman_commission |-> foreman_commission]
       IN  IF chit_id # 0 /\ chit_value > 0 /\ duration > 0
           THEN LET installment == calculate_installment(chit_value, duration)
                    done == execute_query(db.chits,
                                ChitRow(chit_id, FromInt(chit_value),
                                        duration, foreman_commission,
                                        installment),
                                fails)
                IN  /\ db' = [db EXCEPT !.chits = done.table]
                    /\ committed' = [committed EXCEPT !.chits = done.table]
                    /\ loc' = [loc EXCEPT ![s] =
                                 Shown(s, "new_chit", "ok",
                                       arg @@ [returned |-> done.returned])]
           ELSE /\ loc' = [loc EXCEPT ![s] =
                             Shown(s, "new_chit", "invalid",
                                   arg @@ [returned |-> "none"])]
                /\ UNCHANGED <<db, committed>>
    /\ UNCHANGED <<pc, nextId>>

\* The forms and select boxes of the Chit Setup, Members, Auctions and Finance
\* sections whose options are read from the database.
ChitForms ==
    {"edit_chit", "delete_chit", "add_member_form", "schedule_auction_form",
     "calculate_dividend_form"}

MemberForms == {"edit_member", "delete_member"}

AuctionForms == {"edit_auction", "delete_auction"}

\* The options of a select box, the empty first option left out:
\* SELECT chit_id FROM Chits, SELECT member_id, name FROM Members,
\* SELECT auction_id, chit_id, auction_date FROM Auctions.
form_options(t, form) ==
    IF form \in ChitForms THEN {c.chit_id : c \in t.chits}
    ELSE IF form \in MemberForms THEN {m.member_id : m \in t.members}
    ELSE {a.auction_id : a \in t.auctions}

\* A script run reaches one of these forms: fetch_data reads the options of
\* its select box.
FormRead(s, form) ==
    /\ pc[s] = "idle"
    /\ form \in ChitForms \cup MemberForms \cup AuctionForms
    /\ pc' = [pc EXCEPT ![s] = form]
    /\ loc' = [loc EXCEPT ![s] =
                 Running(s, form, "options",
                         [options |-> form_options(db, form)])]
    /\ UNCHANGED <<db, committed, nextId>>

\* execute_query running a DELETE ... WHERE key = %s: executed and committed,
\* return True, the rows of that key gone (none when no row has it); a
\* mysql.connector.Error is printed, return False, and the table is as it was.
execute_delete(table, matching, fails) ==
    IF fails THEN [table |-> table, returned |-> "False"]
    ELSE [table |-> table \ matching, returned |-> "True"]

\* A chit is chosen under Edit Existing Chit Fund; 0 is the empty option, with
\* which the section shows nothing more. fetch_data returns the list of the
\* rows found, current_chit is that list when it is not empty, and building
\* the form's first number_input reads current_chit['chit_value']: TypeError,
\* list indices must be integers. The form is never shown and its UPDATE
\* never runs.
EditChitSelect(s, selected_chit_id_edit) ==
    /\ pc[s] = "edit_chit"
    /\ selected_chit_id_edit \in loc[s].arg.options \cup {0}
    /\ LET current_chit_data ==
               {c \in db.chits : c.chit_id = selected_chit_id_edit}
       IN  loc' = [loc EXCEPT ![s] =
                     Shown(s, "edit_chit",
                           IF selected_chit_id_edit = 0 THEN "unselected"
                           ELSE IF current_chit_data # {} THEN "TypeError"
                           ELSE "gone",
                           [chit_id |-> selected_chit_id_edit])]
    /\ pc' = [pc EXCEPT ![s] = "idle"]
    /\ UNCHANGED <<db, committed, nextId>>

\* A chit is chosen under Delete Existing Chit Fund and its button pressed.
\* The handler calls execute_query, drops what it returns and shows the
\* success message.
DeleteChitSubmit(s, selected_chit_id_delete, fails) ==
    /\ pc[s] = "delete_chit"
    /\ selected_chit_id_delete \in loc[s].arg.options \cup {0}
    /\ LET arg == [chit_id |-> selected_chit_id_delete]
       IN  IF selected_chit_id_delete # 0
           THEN LET done == execute_delete(db.chits,
                                {c \in db.chits :
                                   c.chit_id = selected_chit_id_delete},
                                fails)
                IN  /\ db' = [db EXCEPT !.chits = done.table]
                    /\ committed' = [committed EXCEPT !.chits = done.table]
                    /\ loc' = [loc EXCEPT ![s] =
                                 Shown(s, "delete_chit", "ok",
                                       arg @@ [returned |-> done.returned])]
           ELSE /\ loc' = [loc EXCEPT ![s] =
                             Shown(s, "delete_chit", "unselected",
                                   arg @@ [returned |-> "none"])]
                /\ UNCHANGED <<db, committed>>
    /\ pc' = [pc EXCEPT ![s] = "idle"]
    /\ UNCHANGED nextId

\* ------------------------ DHARMAREDDY.py: the Members and Auctions sections

\* A row of Members; its member_id is the table's AUTO_INCREMENT value.
MemberRow(member_id, chit_id) == [member_id |-> member_id, chit_id |-> chit_id]

\* A row of Auctions; its auction_id is the table's AUTO_INCREMENT value, its
\* winner_id and its discount NULL until a result is recorded.
AuctionRow(auction_id, chit_id, auction_date, winner_id, winning_bid_discount_percentage) ==
    [auction_id |-> auction_id, chit_id |-> chit_id,
     auction_date |-> auction_date, winner_id |-> winner_id,
     winning_bid_discount_percentage |-> winning_bid_discount_percentage]

\* The largest member_id and auction_id the model hands out.
MaxMemberId == 24

MaxAuctionId == 3

\* add_member_form is submitted; filled tells that name and contact hold
\* text, chit_id 0 is the empty option. The handler calls execute_query,
\* drops what it returns and shows the success message.
AddMemberSubmit(s, filled, chit_id, fails) ==
    /\ pc[s] = "add_member_form"
    /\ chit_id \in loc[s].arg.options \cup {0}
    /\ db.member_auto <= MaxMemberId
    /\ LET arg == [filled |-> filled, chit_id |-> chit_id]
       IN  IF filled /\ chit_id # 0
           THEN LET done == execute_query(db.members,
                                MemberRow(db.member_auto, chit_id), fails)
                    auto == IF fails THEN db.member_auto
                            ELSE db.member_auto + 1
                IN  /\ db' = [db EXCEPT !.members = done.table,
                                        !.member_auto = auto]
                    /\ committed' = [committed EXCEPT
                                        !.members = done.table,
                                        !.member_auto = auto]
                    /\ loc' = [loc EXCEPT ![s] =
                                 Shown(s, "add_member", "ok",
                                       arg @@ [returned |-> done.returned])]
           ELSE /\ loc' = [loc EXCEPT ![s] =
                             Shown(s, "add_member", "invalid",
                                   arg @@ [returned |-> "none"])]
                /\ UNCHANGED <<db, committed>>
    /\ pc' = [pc EXCEPT ![s] = "idle"]
    /\ UNCHANGED nextId

\* A member is chosen under Edit Existing Member: current_member is the list
\* fetch_data returned, and the form's first text_input reads
\* current_member['name']: TypeError. The UPDATE never runs.
EditMemberSelect(s, selected_member_id_edit) ==
    /\ pc[s] = "edit_member"
    /\ selected_member_id_edit \in loc[s].arg.options \cup {0}
    /\ LET current_member_data ==
               {m \in db.members : m.member_id = selected_member_id_edit}
       IN  loc' = [loc EXCEPT ![s] =
                     Shown(s, "edit_member",
                           IF selected_member_id_edit = 0 THEN "unselected"
                           ELSE IF current_member_data # {} THEN "TypeError"
                           ELSE "gone",
                           [member_id |-> selected_member_id_edit])]
    /\ pc' = [pc EXCEPT ![s] = "idle"]
    /\ UNCHANGED <<db, committed, nextId>>

\* A member is chosen under Delete Existing Member and its button pressed.
DeleteMemberSubmit(s, selected_member_id_delete, fails) ==
    /\ pc[s] = "delete_member"
    /\ selected_member_id_delete \in loc[s].arg.options \cup {0}
    /\ LET arg == [member_id |-> selected_member_id_delete]
       IN  IF selected_member_id_delete # 0
           THEN LET done == execute_delete(db.members,
                                {m \in db.members :
                                   m.member_id = selected_member_id_delete},
                                fails)
                IN  /\ db' = [db EXCEPT !.members = done.table]
                    /\ committed' = [committed EXCEPT !.members = done.table]
                    /\ loc' = [loc EXCEPT ![s] =
                                 Shown(s, "delete_member", "ok",
                                       arg @@ [returned |-> done.returned])]
           ELSE /\ loc' = [loc EXCEPT ![s] =
                             Shown(s, "delete_member", "unselected",
                                   arg @@ [returned |-> "none"])]
                /\ UNCHANGED <<db, committed>>
    /\ pc' = [pc EXCEPT ![s] = "idle"]
    /\ UNCHANGED nextId

\* schedule_auction_form is submitted; chit_id 0 is the empty option. The
\* INSERT names chit_id and auction_date only: winner and discount are NULL.
ScheduleAuctionSubmit(s, chit_id, auction_date, fails) ==
    /\ pc[s] = "schedule_auction_form"
    /\ chit_id \in loc[s].arg.options \cup {0}
    /\ db.auction_auto <= MaxAuctionId
    /\ LET arg == [chit_id |-> chit_id, auction_date |-> auction_date]
       IN  IF chit_id # 0
           THEN LET done == execute_query(db.auctions,
                                AuctionRow(db.auction_auto, chit_id,
                                           auction_date, NULL, NULL),
                                fails)
                    auto == IF fails THEN db.auction_auto
                            ELSE db.auction_auto + 1
                IN  /\ db' = [db EXCEPT !.auctions = done.table,
                                        !.auction_auto = auto]
                    /\ committed' = [committed EXCEPT
                                        !.auctions = done.table,
                                        !.auction_auto = auto]
                    /\ loc' = [loc EXCEPT ![s] =
                                 Shown(s, "schedule_auction", "ok",
                                       arg @@ [returned |-> done.returned])]
           ELSE /\ loc' = [loc EXCEPT ![s] =
                             Shown(s, "schedule_auction", "invalid",
                                   arg @@ [returned |-> "none"])]
                /\ UNCHANGED <<db, committed>>
    /\ pc' = [pc EXCEPT ![s] = "idle"]
    /\ UNCHANGED nextId

\* An auction is chosen under Edit Existing Auction: current_auction is the
\* list fetch_data returned, and the index of the form's first select box
\* reads current_auction['winner_id']: TypeError. The UPDATE never runs.
EditAuctionSelect(s, auction_id_edit) ==
    /\ pc[s] = "edit_auction"
    /\ auction_id_edit \in loc[s].arg.options \cup {0}
    /\ LET current_auction_data ==
               {a \in db.auctions : a.auction_id = auction_id_edit}
       IN  loc' = [loc EXCEPT ![s] =
                     Shown(s, "edit_auction",
                           IF auction_id_edit = 0 THEN "unselected"
                           ELSE IF current_auction_data # {} THEN "TypeError"
                           ELSE "gone",
                           [auction_id |-> auction_id_edit])]
    /\ pc' = [pc EXCEPT ![s] = "idle"]
    /\ UNCHANGED <<db, committed, nextId>>

\* An auction is chosen under Delete Existing Auction and its button pressed.
DeleteAuctionSubmit(s, auction_id_delete, fails) ==
    /\ pc[s] = "delete_auction"
    /\ auction_id_delete \in loc[s].arg.options \cup {0}
    /\ LET arg == [auction_id |-> auction_id_delete]
       IN  IF auction_id_delete # 0
           THEN LET done == execute_delete(db.auctions,
                                {a \in db.auctions :
                                   a.auction_id = auction_id_delete},
                                fails)
                IN  /\ db' = [db EXCEPT !.auctions = done.table]
                    /\ committed' = [committed EXCEPT !.auctions = done.table]
                    /\ loc' = [loc EXCEPT ![s] =
                                 Shown(s, "delete_auction", "ok",
                                       arg @@ [returned |-> done.returned])]
           ELSE /\ loc' = [loc EXCEPT ![s] =
                             Shown(s, "delete_auction", "unselected",
                                   arg @@ [returned |-> "none"])]
                /\ UNCHANGED <<db, committed>>
    /\ pc' = [pc EXCEPT ![s] = "idle"]
    /\ UNCHANGED nextId

\* ------------------------------------- DHARMAREDDY.py: the Finance section

\* INSERT INTO Dividends (chit_id, member_id, auction_date, dividend_amount,
\* distribution_date)
DividendRow(chit_id, member_id, auction_date, dividend_amount) ==
    [chit_id |-> chit_id, member_id |-> member_id,
     auction_date |-> auction_date, dividend_amount |-> dividend_amount]

\* SELECT winner_id, winning_bid_discount_percentage FROM Auctions
\* WHERE chit_id = %s AND auction_date = %s
auction_result(t, chit_id, auction_date) ==
    {a \in t.auctions : a.chit_id = chit_id /\ a.auction_date = auction_date}

\* calculate_dividend_form is submitted with a chit of its select box. With
\* an auction found, the next statement reads auction_result[winner_id], and
\* winner_id is a name the script never binds: NameError, before any
\* Dividends row is written.
DividendSubmit(s, chit_id_dividend, auction_date_dividend) ==
    /\ pc[s] = "calculate_dividend_form"
    /\ chit_id_dividend \in loc[s].arg.options
    /\ loc' = [loc EXCEPT ![s] =
                 Shown(s, "dividend",
                       IF auction_result(db, chit_id_dividend,
                                         auction_date_dividend) # {}
                       THEN "NameError" ELSE "noauction",
                       [chit_id |-> chit_id_dividend,
                        auction_date |-> auction_date_dividend])]
    /\ pc' = [pc EXCEPT ![s] = "idle"]
    /\ UNCHANGED <<db, committed, nextId>>

\* The form is submitted with the empty option, or left: the handler does not
\* run and the page shows nothing new.
DividendLeave(s) ==
    /\ pc[s] = "calculate_dividend_form"
    /\ loc' = [loc EXCEPT ![s] =
                 Shown(s, "dividend", "unselected",
                       [chit_id |-> 0, auction_date |-> 0])]
    /\ pc' = [pc EXCEPT ![s] = "idle"]
    /\ UNCHANGED <<db, committed, nextId>>

\* ---------------------------------------------------------- specifications

\* Start dates a group is created with.
StartDates ==
    {Date(2023, 1, 31), Date(2024, 1, 31), Date(2023, 11, 30),
     Date(2024, 2, 29), Date(2023, 12, 15), Date(2023, 3, 31)}

InitFrom(tables, firstId) ==
    /\ db = tables
    /\ committed = tables
    /\ pc = [s \in Sessions |-> "idle"]
    /\ loc = [s \in Sessions |-> Idle]
    /\ nextId = firstId

InitWith(tables) == InitFrom(tables, 1)

\* One group of any start date and any duration up to MaxMonths, one caller.
InitSchedule ==
    \E start_date \in StartDates, duration \in 1..MaxMonths :
        InitWith([EmptyTables EXCEPT
                    !.groups = {GroupRow(1, start_date, duration)}])

NextSchedule ==
    \/ \E g \in GroupIds : GenSelect(1, g)
    \/ GenDetails(1)
    \/ GenCheck(1)
    \/ GenInsert(1)
    \/ GenCommit(1)
    \/ GenRollback(1)

SpecSchedule == InitSchedule /\ [][NextSchedule]_vars

\* Start dates of the groups in the specifications with several groups.
GroupStartDates == {Date(2024, 1, 31), Date(2023, 11, 30)}

\* Two groups, created with any of these start dates and durations up to
\* MaxDuration.
InitGroups ==
    \E sd \in [GroupIds -> GroupStartDates], du \in [GroupIds -> 1..MaxDuration] :
        InitWith([EmptyTables EXCEPT
                    !.groups = {GroupRow(g, sd[g], du[g]) : g \in GroupIds}])

\* One caller at a time.
NextGenerate ==
    \/ \E g \in GroupIds : GenSelect(1, g)
    \/ GenDetails(1)
    \/ GenCheck(1)
    \/ GenInsert(1)
    \/ GenCommit(1)
    \/ GenRollback(1)

SpecGenerate == InitGroups /\ [][NextGenerate]_vars

\* Two sessions on the shared connection.
NextGenerateShared ==
    \/ \E s \in Sessions, g \in GroupIds : GenSelect(s, g)
    \/ \E s \in Sessions : GenDetails(s)
    \/ \E s \in Sessions : GenCheck(s)
    \/ \E s \in Sessions : GenInsert(s)
    \/ \E s \in Sessions : GenCommit(s)
    \/ \E s \in Sessions : GenRollback(s)

SpecGenerateShared == InitGroups /\ [][NextGenerateShared]_vars

\* Two groups and two subscribers, nobody enrolled yet.
InitEnroll ==
    InitWith([EmptyTables EXCEPT
                !.groups = {GroupRow(g, Date(2024, 1, 31), MaxDuration)
                               : g \in GroupIds},
                !.subscribers = {SubscriberRow(u) : u \in SubscriberIds}])

\* One caller at a time.
NextEnroll ==
    \/ EnrollReadGroups(1)
    \/ EnrollReadSubscribers(1)
    \/ \E u \in SubscriberIds, g \in GroupIds, k \in 1..MaxChitNumber,
          errno \in {0, 2013} : EnrollExecute(1, u, g, k, errno)
    \/ EnrollCommit(1)
    \/ EnrollRollback(1)

SpecEnroll == InitEnroll /\ [][NextEnroll]_vars

\* Two sessions on the shared connection.
NextEnrollShared ==
    \/ \E s \in Sessions : EnrollReadGroups(s)
    \/ \E s \in Sessions : EnrollReadSubscribers(s)
    \/ \E s \in Sessions, u \in SubscriberIds, g \in GroupIds,
          k \in 1..MaxChitNumber, errno \in {0, 2013} :
          EnrollExecute(s, u, g, k, errno)
    \/ \E s \in Sessions : EnrollCommit(s)
    \/ \E s \in Sessions : EnrollRollback(s)

SpecEnrollShared == InitEnroll /\ [][NextEnrollShared]_vars

\* Both groups have their schedules; some subscribers are enrolled, and some
\* of those enrolled in group 1 have paid towards its first installment.
AuctionGroups == {GroupRow(g, Date(2024, 1, 31), MaxDuration) : g \in GroupIds}

AuctionInstallments ==
    UNION {values_to_insert(g, Date(2024, 1, 31), MaxDuration,
                            1 + (g - 1) * MaxDuration) : g \in GroupIds}

AuctionEnrollments ==
    {EnrollmentRow(11, 1, 1), EnrollmentRow(12, 1, 2), EnrollmentRow(11, 2, 1)}

InitAuction ==
    \E found_rows \in BOOLEAN, enr \in SUBSET AuctionEnrollments :
      \E pay \in SUBSET {PaymentRow(2 * MaxDuration + (e.subscriberId - 10),
                                    1, e.subscriberId, 250)
                            : e \in {x \in enr : x.groupId = 1}} :
        InitFrom([groups |-> AuctionGroups,
                  subscribers |-> {SubscriberRow(u) : u \in SubscriberIds},
                  enrollments |-> enr,
                  installments |-> AuctionInstallments,
                  payments |-> pay,
                  found_rows |-> found_rows],
                 2 * MaxDuration + 3)

\* One caller at a time.
NextAuction ==
    \/ \E g \in GroupIds : AuctionSelectGroup(1, g)
    \/ AuctionReadInstallments(1)
    \/ AuctionReadEnrollments(1)
    \/ \E i \in IdsOf(db.installments), p \in Prizes, w \in SubscriberIds :
          AuctionSubmit(1, i, p, w)
    \/ AuctionSubmitFails(1)
    \/ AuctionCommit(1)
    \/ AuctionRollback(1)

SpecAuction == InitAuction /\ [][NextAuction]_vars

\* Two sessions on the shared connection.
NextAuctionShared ==
    \/ \E s \in Sessions, g \in GroupIds : AuctionSelectGroup(s, g)
    \/ \E s \in Sessions : AuctionReadInstallments(s)
    \/ \E s \in Sessions : AuctionReadEnrollments(s)
    \/ \E s \in Sessions, i \in IdsOf(db.installments), p \in Prizes,
          w \in SubscriberIds : AuctionSubmit(s, i, p, w)
    \/ \E s \in Sessions : AuctionSubmitFails(s)
    \/ \E s \in Sessions : AuctionCommit(s)
    \/ \E s \in Sessions : AuctionRollback(s)

\* Everybody of AuctionEnrollments is enrolled and has paid; group 1 has its
\* schedule, group 2 none yet.
InitAuctionShared ==
    \E found_rows \in BOOLEAN :
      InitFrom([groups |-> AuctionGroups,
                subscribers |-> {SubscriberRow(u) : u \in SubscriberIds},
                enrollments |-> AuctionEnrollments,
                installments |->
                    values_to_insert(1, Date(2024, 1, 31), MaxDuration, 1),
                payments |-> {PaymentRow(2 * MaxDuration + (u - 10), 1, u, 250)
                                 : u \in SubscriberIds},
                found_rows |-> found_rows],
               2 * MaxDuration + 3)

SpecAuctionShared == InitAuctionShared /\ [][NextAuctionShared]_vars

\* One session records auctions while the other deletes groups, with the
\* cascade policy.
NextAuctionDeleted ==
    \/ \E g \in GroupIds : AuctionSelectGroup(1, g)
    \/ AuctionReadInstallments(1)
    \/ AuctionReadEnrollments(1)
    \/ AuctionSubmitForm(1)
    \/ AuctionSubmitFails(1)
    \/ AuctionCommit(1)
    \/ AuctionRollback(1)
    \/ DeleteList(2, "ChitGroups")
    \/ \E g \in GroupIds, errno \in {0, 2013} :
          DeleteExecute(2, "ChitGroups", g, TRUE, errno)
    \/ DeleteCommit(2)
    \/ DeleteRollback(2)

SpecAuctionDeleted == InitAuctionShared /\ [][NextAuctionDeleted]_vars

\* The arguments calculate_dividend is called with.
ChitValues == {FromInt(0), FromInt(1000), FromInt(100000), Rat(1, 3)}

Percentages == {FromInt(0), FromInt(2), FromInt(5), Rat(5, 2), FromInt(100)}

MemberCounts == {-1, 0, 1, 2, 3, 20}

NextCalculate ==
    \/ \E chit_value \in ChitValues, discount \in Percentages,
          commission \in Percentages, num_members \in MemberCounts :
          CalculateDividendArgs(1, chit_value, discount, commission,
                                num_members)
    \/ CalculateDividend(1)

SpecCalculate == InitWith(EmptyTables) /\ [][NextCalculate]_vars

\* Two chits; each of three members is in one of them or in none; one auction
\* per chit may have been scheduled for date 1, its winner and discount NULL
\* as schedule_auction_form leaves them. The next member will be number 24,
\* the next auction number 3.
ChitIds == {1, 2}

MemberIds == {21, 22, 23}

AuctionDates == {1, 2}

InitDistribute ==
    \E chit_of \in [MemberIds -> ChitIds \cup {0}] :
      \E held \in SUBSET {AuctionRow(1, 1, 1, NULL, NULL),
                          AuctionRow(2, 2, 1, NULL, NULL)} :
        InitWith([chits |-> {ChitRow(c, FromInt(100000), 20, FromInt(2),
                                       calculate_installment(100000, 20))
                               : c \in ChitIds},
                  members |-> {MemberRow(m, chit_of[m])
                                 : m \in {x \in MemberIds : chit_of[x] # 0}},
                  auctions |-> held,
                  dividends |-> {},
                  member_auto |-> MaxMemberId,
                  auction_auto |-> MaxAuctionId])

\* The forms of the Members, Auctions and Finance sections.
DistributeForms ==
    (ChitForms \ {"edit_chit", "delete_chit"}) \cup MemberForms
    \cup AuctionForms

\* One caller manages members and auctions and submits the dividend form.
NextDistribute ==
    \/ \E form \in DistributeForms : FormRead(1, form)
    \/ \E filled \in BOOLEAN, chit_id \in ChitIds \cup {0}, fails \in BOOLEAN :
          AddMemberSubmit(1, filled, chit_id, fails)
    \/ \E member_id \in 0..MaxMemberId : EditMemberSelect(1, member_id)
    \/ \E member_id \in 0..MaxMemberId, fails \in BOOLEAN :
          DeleteMemberSubmit(1, member_id, fails)
    \/ \E chit_id \in ChitIds \cup {0}, auction_date \in AuctionDates,
          fails \in BOOLEAN :
          ScheduleAuctionSubmit(1, chit_id, auction_date, fails)
    \/ \E auction_id \in 0..MaxAuctionId : EditAuctionSelect(1, auction_id)
    \/ \E auction_id \in 0..MaxAuctionId, fails \in BOOLEAN :
          DeleteAuctionSubmit(1, auction_id, fails)
    \/ \E chit_id \in ChitIds, auction_date \in AuctionDates :
          DividendSubmit(1, chit_id, auction_date)
    \/ DividendLeave(1)

SpecDistribute == InitDistribute /\ [][NextDistribute]_vars

\* The only INSERT INTO Auctions names chit_id and auction_date, and the only
\* UPDATE of Auctions is behind the TypeError of Edit Existing Auction: no
\* auction has a winner or a discount.
NoWinnerRecorded ==
    \A a \in db.auctions :
        a.winner_id = NULL /\ a.winning_bid_discount_percentage = NULL

\* The only INSERT INTO Dividends is behind the NameError of the
\* calculate_dividend_form handler: the table stays empty.
NoDividendWritten == db.dividends = {} /\ committed.dividends = {}

\* Both groups have their schedules, some subscribers are enrolled, nothing is
\* paid yet; one caller records payments and looks at the dues.
InitPayment ==
    \E enr \in SUBSET AuctionEnrollments :
        InitFrom([groups |-> AuctionGroups,
                  subscribers |-> {SubscriberRow(u) : u \in SubscriberIds},
                  enrollments |-> enr,
                  installments |-> AuctionInstallments,
                  payments |-> {}],
                 MaxIds - 1)

NextPayment ==
    \/ \E g \in GroupIds : PaymentSelectGroup(1, g)
    \/ PaymentReadInstallments(1)
    \/ PaymentReadEnrollments(1)
    \/ PaymentSubmitForm(1)
    \/ PaymentCommit(1)
    \/ PaymentRollback(1)
    \/ \E g \in GroupIds : DuesSelectGroup(1, g)
    \/ DuesReadInstallments(1)
    \/ \E month_num \in 1..MaxDuration : DuesFindInstallment(1, month_num)
    \/ DuesShow(1)

SpecPayment == InitPayment /\ [][NextPayment]_vars

\* No chit yet; one caller submits the new_chit_form.
InitChitSetup ==
    InitWith([chits |-> {}, members |-> {}, auctions |-> {}, dividends |-> {},
              member_auto |-> 1, auction_auto |-> 1])

NextChitSetup ==
    \E chit_id \in ChitIds \cup {0}, chit_value \in NewChitValues,
       duration \in 1..MaxChitDuration,
       foreman_commission \in NewChitCommissions, fails \in BOOLEAN :
        NewChitSubmit(1, chit_id, chit_value, duration, foreman_commission,
                      fails)

SpecChitSetup == InitChitSetup /\ [][NextChitSetup]_vars

\* The databases of InitAuction, their foreign keys declared ON DELETE CASCADE
\* or ON DELETE RESTRICT; one caller deletes groups and subscribers and
\* records payments.
InitDelete ==
    \E onDelete \in {"CASCADE", "RESTRICT"} :
      \E enr \in SUBSET AuctionEnrollments :
        \E pay \in SUBSET {PaymentRow(2 * MaxDuration + (e.subscriberId - 10),
                                      1, e.subscriberId, 250)
                              : e \in {x \in enr : x.groupId = 1}} :
          InitFrom([groups |-> AuctionGroups,
                    subscribers |-> {SubscriberRow(u) : u \in SubscriberIds},
                    enrollments |-> enr,
                    installments |-> AuctionInstallments,
                    payments |-> pay,
                    onDelete |-> onDelete],
                   MaxIds)

NextDelete ==
    \/ \E table_name \in DeleteTables : DeleteList(1, table_name)
    \/ \E table_name \in DeleteTables, item_id \in GroupIds \cup SubscriberIds,
          errno \in {0, 2013} :
          DeleteExecute(1, table_name, item_id, db.onDelete = "CASCADE", errno)
    \/ DeleteCommit(1)
    \/ DeleteRollback(1)
    \/ \E g \in GroupIds : PaymentSelectGroup(1, g)
    \/ PaymentReadInstallments(1)
    \/ PaymentReadEnrollments(1)
    \/ PaymentSubmitForm(1)
    \/ PaymentCommit(1)
    \/ PaymentRollback(1)

SpecDelete == InitDelete /\ [][NextDelete]_vars

\* What the add_group_form is submitted with: names (0: left empty), values,
\* subscriber counts and durations from the widgets' minimum 0 on, and the
\* commission field empty or holding a number.
GroupNames == {0, 1, 2}

GroupValues == {0, 1000}

SubscriberCounts == {0, 2}

Commissions == {NULL, Some(-1), Some(0), Some(7), Some(50)}

\* One group exists; one caller adds groups.
InitGroupCreate ==
    InitFrom([EmptyTables EXCEPT
                !.groups = {GroupRow(1, Date(2024, 1, 31), MaxDuration)}],
             MaxIds - 1)

NextGroupCreate ==
    \/ \E name \in GroupNames, value \in GroupValues,
          num_subscribers \in SubscriberCounts, duration \in 0..MaxDuration,
          commission \in Commissions, fails \in BOOLEAN :
          GroupSubmit(1, name, value, num_subscribers, duration,
                      Date(2024, 1, 31), commission, fails)
    \/ GroupCommit(1)
    \/ GroupRollback(1)

SpecGroupCreate == InitGroupCreate /\ [][NextGroupCreate]_vars

\* Names and phone numbers the add_subscriber_form is submitted with (0: left
\* empty); subscriber 11 exists, its phone number 11.
SubscriberNames == {0, 1, 2}

Phones == {0, 11, 12, 13}

InitSubscriber ==
    InitFrom([EmptyTables EXCEPT !.subscribers = {SubscriberRow(11)}],
             MaxIds - 1)

NextSubscriber ==
    \/ \E name \in SubscriberNames, phone \in Phones, errno \in {0, 2013} :
          SubscriberSubmit(1, name, phone, errno)
    \/ SubscriberCommit(1)
    \/ SubscriberRollback(1)

SpecSubscriber == InitSubscriber /\ [][NextSubscriber]_vars

\* One caller creates chits, chooses chits to edit and deletes chits.
NextChitEdit ==
    \/ \E chit_id \in ChitIds \cup {0}, chit_value \in NewChitValues,
          duration \in 1..MaxChitDuration,
          foreman_commission \in NewChitCommissions, fails \in BOOLEAN :
          NewChitSubmit(1, chit_id, chit_value, duration, foreman_commission,
                        fails)
    \/ \E form \in {"edit_chit", "delete_chit"} : FormRead(1, form)
    \/ \E chit_id \in ChitIds \cup {0} : EditChitSelect(1, chit_id)
    \/ \E chit_id \in ChitIds \cup {0}, fails \in BOOLEAN :
          DeleteChitSubmit(1, chit_id, fails)

SpecChitEdit == InitChitSetup /\ [][NextChitEdit]_vars

\* One group with two subscribers enrolled and no installments yet; one
\* caller generates the schedule, records auctions and records payments.
InitLifecycle ==
    \E found_rows \in BOOLEAN :
      InitFrom([EmptyTables EXCEPT
                  !.groups = {GroupRow(1, Date(2024, 1, 31), MaxDuration)},
                  !.subscribers = {SubscriberRow(u) : u \in SubscriberIds},
                  !.enrollments = {EnrollmentRow(11, 1, 1),
                                   EnrollmentRow(12, 1, 2)}]
                 @@ [found_rows |-> found_rows],
               MaxIds - MaxDuration - 1)

NextLifecycle ==
    \/ \E g \in GroupIds : GenSelect(1, g)
    \/ GenDetails(1)
    \/ GenCheck(1)
    \/ GenInsert(1)
    \/ GenCommit(1)
    \/ GenRollback(1)
    \/ \E g \in GroupIds : AuctionSelectGroup(1, g)
    \/ AuctionReadInstallments(1)
    \/ AuctionReadEnrollments(1)
    \/ AuctionSubmitForm(1)
    \/ AuctionSubmitFails(1)
    \/ AuctionCommit(1)
    \/ AuctionRollback(1)
    \/ \E g \in GroupIds : PaymentSelectGroup(1, g)
    \/ PaymentReadInstallments(1)
    \/ PaymentReadEnrollments(1)
    \/ PaymentSubmitForm(1)
    \/ PaymentCommit(1)
    \/ PaymentRollback(1)

SpecLifecycle == InitLifecycle /\ [][NextLifecycle]_vars

\* Two groups for one subscriber each, two subscribers, nobody enrolled yet;
\* one caller enrolls.
InitEnrollOver ==
    InitWith([EmptyTables EXCEPT
                !.groups = {ChitGroupRow(g, g, 1000, 1, MaxDuration,
                                         Date(2024, 1, 31), NULL)
                               : g \in GroupIds},
                !.subscribers = {SubscriberRow(u) : u \in SubscriberIds}])

SpecEnrollOver == InitEnrollOver /\ [][NextEnroll]_vars

\* Group 1 has its schedule, two enrollments and their payments, group 2 an
\* enrollment and no schedule yet; the foreign keys are declared ON DELETE
\* CASCADE or ON DELETE RESTRICT. Session 1 generates, enrolls, records
\* payments and looks at the dues, and both sessions delete groups and
\* subscribers.
InitDeleting ==
    \E onDelete \in {"CASCADE", "RESTRICT"} :
      InitFrom([groups |-> AuctionGroups,
                subscribers |-> {SubscriberRow(u) : u \in SubscriberIds},
                enrollments |-> AuctionEnrollments,
                installments |->
                    values_to_insert(1, Date(2024, 1, 31), MaxDuration, 1),
                payments |-> {PaymentRow(2 * MaxDuration + (u - 10), 1, u, 250)
                                 : u \in SubscriberIds},
                onDelete |-> onDelete],
               MaxIds)

NextDeleting ==
    \/ \E g \in GroupIds : GenSelect(1, g)
    \/ GenDetails(1)
    \/ GenCheck(1)
    \/ GenInsert(1)
    \/ GenCommit(1)
    \/ GenRollback(1)
    \/ EnrollReadGroups(1)
    \/ EnrollReadSubscribers(1)
    \/ \E u \in SubscriberIds, g \in GroupIds, k \in 1..MaxChitNumber,
          errno \in {0, 2013} : EnrollExecute(1, u, g, k, errno)
    \/ EnrollCommit(1)
    \/ EnrollRollback(1)
    \/ \E g \in GroupIds : PaymentSelectGroup(1, g)
    \/ PaymentReadInstallments(1)
    \/ PaymentReadEnrollments(1)
    \/ PaymentSubmitForm(1)
    \/ PaymentCommit(1)
    \/ PaymentRollback(1)
    \/ \E g \in GroupIds : DuesSelectGroup(1, g)
    \/ DuesReadInstallments(1)
    \/ \E month_num \in 1..MaxDuration : DuesFindInstallment(1, month_num)
    \/ DuesShow(1)
    \/ \E s \in Sessions, table_name \in DeleteTables :
          DeleteList(s, table_name)
    \/ \E s \in Sessions, table_name \in DeleteTables,
          item_id \in GroupIds \cup SubscriberIds, errno \in {0, 2013} :
          DeleteExecute(s, table_name, item_id, db.onDelete = "CASCADE", errno)
    \/ \E s \in Sessions : DeleteCommit(s)
    \/ \E s \in Sessions : DeleteRollback(s)

SpecDeleting == InitDeleting /\ [][NextDeleting]_vars

\* Group 1, of one month, holds two installments of month 1, as two generate
\* calls that both passed the existence check leave them; both subscribers are
\* enrolled and subscriber 11 has paid towards the first of the two. One
\* caller looks at the dues.
InitDuesTwice ==
    InitFrom([EmptyTables EXCEPT
                !.groups = {GroupRow(1, Date(2024, 1, 31), 1)},
                !.subscribers = {SubscriberRow(u) : u \in SubscriberIds},
                !.enrollments = {EnrollmentRow(11, 1, 1),
                                 EnrollmentRow(12, 1, 2)},
                !.installments =
                    values_to_insert(1, Date(2024, 1, 31), 1, 1)
                    \cup values_to_insert(1, Date(2024, 1, 31), 1, 2),
                !.payments = {PaymentRow(3, 1, 11, 250)}],
             MaxIds)

NextDuesTwice ==
    \/ \E g \in GroupIds : DuesSelectGroup(1, g)
    \/ DuesReadInstallments(1)
    \/ \E month_num \in 1..MaxDuration : DuesFindInstallment(1, month_num)
    \/ DuesShow(1)

SpecDuesTwice == InitDuesTwice /\ [][NextDuesTwice]_vars

\* Chit 1 has members 21 and 22 and an auction on date 1 won by 21; two
\* sessions, each with its own connection, manage chits, members and auctions
\* and submit the dividend form.
InitDistributeShared ==
    InitWith([chits |-> {ChitRow(1, FromInt(100000), 20, FromInt(2),
                                 calculate_installment(100000, 20))},
              members |-> {MemberRow(21, 1), MemberRow(22, 1)},
              auctions |-> {AuctionRow(1, 1, 1, NULL, NULL)},
              dividends |-> {},
              member_auto |-> MaxMemberId,
              auction_auto |-> MaxAuctionId])

NextDistributeShared ==
    \/ \E s \in Sessions,
          form \in ChitForms \cup MemberForms \cup AuctionForms :
          FormRead(s, form)
    \/ \E s \in Sessions, chit_id \in ChitIds \cup {0} :
          EditChitSelect(s, chit_id)
    \/ \E s \in Sessions, chit_id \in ChitIds \cup {0}, fails \in BOOLEAN :
          DeleteChitSubmit(s, chit_id, fails)
    \/ \E s \in Sessions, filled \in BOOLEAN, chit_id \in ChitIds \cup {0},
          fails \in BOOLEAN : AddMemberSubmit(s, filled, chit_id, fails)
    \/ \E s \in Sessions, member_id \in 0..MaxMemberId :
          EditMemberSelect(s, member_id)
    \/ \E s \in Sessions, member_id \in 0..MaxMemberId, fails \in BOOLEAN :
          DeleteMemberSubmit(s, member_id, fails)
    \/ \E s \in Sessions, chit_id \in ChitIds \cup {0},
          auction_date \in AuctionDates, fails \in BOOLEAN :
          ScheduleAuctionSubmit(s, chit_id, auction_date, fails)
    \/ \E s \in Sessions, auction_id \in 0..MaxAuctionId :
          EditAuctionSelect(s, auction_id)
    \/ \E s \in Sessions, auction_id \in 0..MaxAuctionId, fails \in BOOLEAN :
          DeleteAuctionSubmit(s, auction_id, fails)
    \/ \E s \in Sessions, chit_id \in ChitIds, auction_date \in AuctionDates :
          DividendSubmit(s, chit_id, auction_date)
    \/ \E s \in Sessions : DividendLeave(s)

SpecDistributeShared == InitDistributeShared /\ [][NextDistributeShared]_vars

\* ------------------------------------------------------------------ claims

ShowsGenerate(s, res) ==
    pc[s] = "idle" /\ loc[s].op = "generate" /\ loc[s].res = res

MonthsOf(rows) == {r.monthNumber : r \in rows}

\* The group has its whole schedule: duration rows, months 1..duration once each.
WholeSchedule(t, g) ==
    LET rows == get_installments_for_group(t, g)
        d == get_group_details_by_id(t, g).duration
    IN  Cardinality(rows) = d /\ MonthsOf(rows) = 1..d

\* C1: a successful generate on a group without installments leaves the group
\* with exactly duration installments, months 1..duration each once, and the
\* month 1 installment is due on the group's start date.
C1_GenerateCreatesSchedule ==
    \A s \in Sessions :
        ShowsGenerate(s, "ok") =>
            LET g == loc[s].arg.g
            IN  /\ WholeSchedule(committed, g)
                /\ \A r \in get_installments_for_group(committed, g) :
                     r.monthNumber = 1 =>
                        r.dueDate = get_group_details_by_id(committed, g).startDate

C1_Witness ==
    \E s \in Sessions :
        /\ ShowsGenerate(s, "ok")
        /\ get_group_details_by_id(committed, loc[s].arg.g).duration >= 2
        /\ Cardinality(get_installments_for_group(committed, loc[s].arg.g)) >= 2

\* C2: a generate called on a group that already has an installment is
\* rejected at its existence check and changes no row.
C2_GenerateTwiceRejected ==
    [][\A s \in Sessions, g \in GroupIds :
        (/\ pc[s] = "gen_check"
         /\ pc'[s] # pc[s]
         /\ loc[s].arg.g = g
         /\ get_installments_for_group(db, g) # {})
        => (/\ pc'[s] = "idle"
            /\ loc'[s].res = "rejected"
            /\ db' = db
            /\ committed' = committed)]_vars

C2_Witness ==
    \E s \in Sessions :
        /\ ShowsGenerate(s, "rejected")
        /\ WholeSchedule(committed, loc[s].arg.g)

\* C3: in every reachable state the installments of a group have pairwise
\* distinct month numbers, all within 1..duration.
C3_MonthNumbersUnique ==
    \A t \in {db, committed} :
        \A i \in t.installments :
            /\ i.monthNumber \in 1..get_group_details_by_id(t, i.groupId).duration
            /\ \A j \in t.installments :
                 (j.groupId = i.groupId /\ j.monthNumber = i.monthNumber) => j = i

\* C4: generate is all or nothing: a group never holds part of a schedule,
\* a failed generate leaves it without installments, a successful one with
\* all of them.
C4_GenerateAllOrNothing ==
    /\ \A t \in {db, committed} :
         \A g \in IdsOf(t.groups) :
            get_installments_for_group(t, g) = {} \/ WholeSchedule(t, g)
    /\ \A s \in Sessions :
         /\ ShowsGenerate(s, "error") =>
              /\ get_installments_for_group(db, loc[s].arg.g) = {}
              /\ get_installments_for_group(committed, loc[s].arg.g) = {}
         /\ ShowsGenerate(s, "ok") => WholeSchedule(committed, loc[s].arg.g)

C4_Witness ==
    \E s \in Sessions :
        /\ ShowsGenerate(s, "error")
        /\ get_group_details_by_id(db, loc[s].arg.g).duration >= 2
        /\ get_installments_for_group(committed, loc[s].arg.g) = {}

\* The last valid day of a month, leap years included.
C5_LastDay(y, m) ==
    CASE m = 2 -> IF (y % 4 = 0 /\ y % 100 # 0) \/ y % 400 = 0 THEN 29 ELSE 28
      [] m \in {4, 6, 9, 11} -> 30
      [] OTHER -> 31

\* C5: the due date of month k is the start date's month advanced by k - 1
\* with year carry, on day min(start day, last valid day of that month):
\* Jan 31 + 1 month is Feb 28 or 29, + 2 months is Mar 31, + 13 months is the
\* end of February of the following year.
C5_DueDateClamped ==
    \A t \in {db, committed} :
        \A i \in t.installments :
            LET S == get_group_details_by_id(t, i.groupId).startDate
                k == i.monthNumber
                d == i.dueDate
            IN  /\ d.month \in 1..12
                /\ d.year * 12 + (d.month - 1)
                     = S.year * 12 + (S.month - 1) + (k - 1)
                /\ d.day = Min(S.day, C5_LastDay(d.year, d.month))
                /\ (S = Date(2023, 1, 31) /\ k = 2) => d = Date(2023, 2, 28)
                /\ (S = Date(2024, 1, 31) /\ k = 2) => d = Date(2024, 2, 29)
                /\ (S = Date(2023, 1, 31) /\ k = 3) => d = Date(2023, 3, 31)
                /\ (S = Date(2023, 1, 31) /\ k = 14) => d = Date(2024, 2, 29)
                /\ (S = Date(2024, 1, 31) /\ k = 14) => d = Date(2025, 2, 28)

C5_Witness ==
    /\ Date(2023, 1, 31) \in {g.startDate : g \in committed.groups}
    /\ \E i, j, l \in committed.installments :
         /\ i.monthNumber = 2 /\ i.dueDate = Date(2023, 2, 28)
         /\ j.monthNumber = 3 /\ j.dueDate = Date(2023, 3, 31)
         /\ l.monthNumber = 14 /\ l.dueDate = Date(2024, 2, 29)

EnrolledIn(t, u, g) ==
    \E e \in t.enrollments : e.subscriberId = u /\ e.groupId = g

NumberTaken(t, g, k) ==
    \E e \in t.enrollments : e.groupId = g /\ e.assignedChitNumber = k

\* Session s starts an enroll in this step.
EnrollCalled(s) ==
    pc[s] = "enroll_form" /\ pc'[s] \in {"enroll_commit", "enroll_rollback"}

\* C6: enrolling a pair that is not enrolled, with a free number, succeeds and
\* adds that enrollment; enrolling an enrolled pair again, whatever the number,
\* fails with a conflict and leaves the enrollments as they were. An INSERT
\* that fails for another reason (errno 2013) is rolled back and shown as an
\* error, not as a conflict.
C6_EnrollTwiceConflicts ==
    [][\A s \in Sessions :
        /\ EnrollCalled(s) =>
             LET a == loc'[s].arg
                 row == EnrollmentRow(a.subscriber_id, a.g, a.assigned_number)
             IN  /\ (/\ ~EnrolledIn(db, a.subscriber_id, a.g)
                     /\ ~NumberTaken(db, a.g, a.assigned_number))
                    => \/ /\ pc'[s] = "enroll_commit"
                          /\ db'.enrollments = db.enrollments \cup {row}
                          /\ row \notin db.enrollments
                       \/ /\ pc'[s] = "enroll_rollback"
                          /\ a.errno = 2013
                 /\ EnrolledIn(db, a.subscriber_id, a.g)
                    => (/\ pc'[s] = "enroll_rollback"
                        /\ a.errno \in {1062, 2013}
                        /\ db' = db)
        /\ (pc[s] = "enroll_commit" /\ pc'[s] = "idle")
           => (/\ loc'[s].res = "ok"
               /\ committed'.enrollments = db.enrollments
               /\ db' = db)
        /\ (pc[s] = "enroll_rollback" /\ pc'[s] = "idle")
           => (/\ loc[s].arg.errno = 1062 => loc'[s].res = "conflict"
               /\ loc[s].arg.errno = 2013 => loc'[s].res = "error"
               /\ db'.enrollments = db.enrollments
               /\ committed' = committed)]_vars

C6_Witness ==
    \E s \in Sessions :
        /\ pc[s] = "idle" /\ loc[s].op = "enroll" /\ loc[s].res = "conflict"
        /\ \E e \in committed.enrollments :
             /\ e.subscriberId = loc[s].arg.subscriber_id
             /\ e.groupId = loc[s].arg.g
             /\ e.assignedChitNumber # loc[s].arg.assigned_number
        /\ ~NumberTaken(committed, loc[s].arg.g, loc[s].arg.assigned_number)

\* No two enrollments of a group share an assigned chit number.
ChitNumbersUnique(t) ==
    \A e, f \in t.enrollments :
        (e.groupId = f.groupId /\ e.assignedChitNumber = f.assignedChitNumber)
            => e = f

\* C7: in every state no two enrollments of a group share an assigned chit
\* number; an enroll of another subscriber with a number taken in the group
\* fails, with a conflict when the key refused it (errno 1062), and adds no
\* enrollment.
C7_ChitNumberUnique ==
    /\ [](ChitNumbersUnique(db) /\ ChitNumbersUnique(committed))
    /\ [][\A s \in Sessions :
            /\ (/\ EnrollCalled(s)
                /\ NumberTaken(db, loc'[s].arg.g, loc'[s].arg.assigned_number))
               => (/\ pc'[s] = "enroll_rollback"
                   /\ loc'[s].arg.errno \in {1062, 2013}
                   /\ db' = db)
            /\ (pc[s] = "enroll_rollback" /\ pc'[s] = "idle")
               => (/\ loc[s].arg.errno = 1062 => loc'[s].res = "conflict"
                   /\ db'.enrollments \subseteq db.enrollments
                   /\ committed' = committed)]_vars

C7_Witness ==
    \E s \in Sessions :
        /\ pc[s] = "idle" /\ loc[s].op = "enroll" /\ loc[s].res = "conflict"
        /\ ~EnrolledIn(committed, loc[s].arg.subscriber_id, loc[s].arg.g)
        /\ \E e \in committed.enrollments :
             /\ e.groupId = loc[s].arg.g
             /\ e.assignedChitNumber = loc[s].arg.assigned_number
             /\ e.subscriberId # loc[s].arg.subscriber_id

\* Session s has finished its first handler, an enroll.
FirstEnrollDone(s) ==
    pc[s] = "idle" /\ loc[s].op = "enroll" /\ loc[s].n = 1

\* C8: when two callers have each enrolled once, neither INSERT failing for
\* a reason other than the unique keys, different subscribers into
\* the same group with the same number, one was told it succeeded, the other
\* got the conflict, and the group holds exactly one enrollment with that
\* number.
C8_OneOfTwoEnrolls ==
    \A s, t \in Sessions :
        (/\ s # t
         /\ FirstEnrollDone(s) /\ FirstEnrollDone(t)
         /\ loc[s].res # "error" /\ loc[t].res # "error"
         /\ loc[s].arg.g = loc[t].arg.g
         /\ loc[s].arg.assigned_number = loc[t].arg.assigned_number
         /\ loc[s].arg.subscriber_id # loc[t].arg.subscriber_id)
        => (/\ {loc[s].res, loc[t].res} = {"ok", "conflict"}
            /\ Cardinality({e \in committed.enrollments :
                              /\ e.groupId = loc[s].arg.g
                              /\ e.assignedChitNumber
                                   = loc[s].arg.assigned_number}) = 1)

InstallmentById(t, id) == CHOOSE i \in t.installments : i.id = id

\* Session s runs the UPDATE of a recordAuction in this step.
AuctionUpdated(s) == pc[s] = "auction_form" /\ pc'[s] = "auction_commit"

\* C9: a recordAuction on an installment whose auction is already recorded
\* fails and leaves the installment's prize and winner as they were.
C9_NoSecondAuction ==
    [][\A s \in Sessions :
        (/\ AuctionUpdated(s)
         /\ InstallmentById(db, loc'[s].arg.installment_id).isAuctionConducted)
        => (/\ InstallmentById(db', loc'[s].arg.installment_id)
                 = InstallmentById(db, loc'[s].arg.installment_id)
            /\ loc'[s].arg.rowcount = 0)]_vars

\* C10: a successful recordAuction sets isAuctionConducted, the prize and the
\* winner of its installment and nothing else: the installment's other
\* fields, the other installments, the enrollments and the payments stay.
C10_AuctionFrame ==
    [][\A s \in Sessions :
        /\ AuctionUpdated(s) =>
             LET a == loc'[s].arg
                 old == InstallmentById(db, a.installment_id)
                 new == InstallmentById(db', a.installment_id)
             IN  /\ IdsOf(db'.installments) = IdsOf(db.installments)
                 /\ Cardinality(db'.installments) = Cardinality(db.installments)
                 /\ new.isAuctionConducted
                 /\ new.auctionPrizeAmount = Some(a.prize_amount)
                 /\ new.auctionWinnerId = Some(a.winner)
                 /\ new.groupId = old.groupId
                 /\ new.monthNumber = old.monthNumber
                 /\ new.dueDate = old.dueDate
                 /\ new.isCompleted = old.isCompleted
                 /\ \A i \in db.installments :
                      i.id # a.installment_id => i \in db'.installments
                 /\ db'.enrollments = db.enrollments
                 /\ db'.payments = db.payments
                 /\ db'.groups = db.groups
                 /\ db'.subscribers = db.subscribers
        /\ (pc[s] = "auction_commit" /\ pc'[s] = "idle")
           => (/\ loc'[s].res = "ok"
               /\ db' = db
               /\ committed' = db)]_vars

C10_Witness ==
    \E s \in Sessions :
        /\ pc[s] = "idle" /\ loc[s].op = "auction" /\ loc[s].res = "ok"
        /\ committed.payments # {}
        /\ \E i, j \in committed.installments :
             /\ i.id = loc[s].arg.installment_id
             /\ i.auctionWinnerId = Some(loc[s].arg.winner)
             /\ j.groupId = i.groupId
             /\ ~j.isAuctionConducted

\* The UPDATE of session s's auction is the step taken.
AuctionExecuted(s) == pc[s] = "auction_form" /\ pc'[s] = "auction_commit"

\* C11: recordAuction with an installment id that matches no installment
\* changes no row, and its outcome is the not-found one, whose message differs
\* from the validation failure's and from the storage failure's.
C11_AuctionNotFound ==
    [][\A s \in Sessions :
         /\ (/\ AuctionExecuted(s)
             /\ loc'[s].arg.installment_id \notin IdsOf(db.installments))
            => /\ db' = db
               /\ loc'[s].arg.rowcount = 0
         /\ (/\ pc[s] = "auction_commit" /\ pc'[s] = "idle"
             /\ loc[s].arg.rowcount = 0)
            => /\ loc'[s].res = "notfound"
               /\ db' = db
               /\ auction_message(loc'[s].res) # auction_message("invalid")
               /\ auction_message(loc'[s].res) # auction_message("error")
               /\ auction_message(loc'[s].res) # auction_message("ok")
         /\ (pc[s] = "auction_rollback" /\ pc'[s] = "idle")
            => loc'[s].res = "error"]_vars

\* An auction was submitted for an installment deleted since the form was
\* filled, and the not-found warning is shown.
C11_Witness ==
    /\ pc[1] = "idle"
    /\ loc[1].op = "auction" /\ loc[1].res = "notfound"
    /\ loc[1].arg.installment_id \notin IdsOf(db.installments)
    /\ loc[1].arg.g \notin IdsOf(committed.groups)

\* C12: right after a successful recordAuction the stored winner holds an
\* enrollment in the group of the installment it was recorded for.
C12_WinnerEnrolled ==
    \A s \in Sessions :
        (pc[s] = "idle" /\ loc[s].op = "auction" /\ loc[s].res = "ok")
        => \E i \in db.installments :
              /\ i.id = loc[s].arg.installment_id
              /\ i.auctionWinnerId = Some(loc[s].arg.winner)
              /\ \E e \in db.enrollments :
                    /\ e.subscriberId = loc[s].arg.winner
                    /\ e.groupId = i.groupId

\* An auction was recorded in group 1 while its winner is enrolled in both
\* groups and another subscriber only in group 1.
C12_Witness ==
    /\ pc[1] = "idle" /\ loc[1].op = "auction" /\ loc[1].res = "ok"
    /\ loc[1].arg.g = 1
    /\ loc[1].arg.winner = 11
    /\ db.enrollments = AuctionEnrollments
    /\ \E i \in committed.installments :
          i.groupId = 1 /\ i.auctionWinnerId = Some(11)

\* calculate_dividend has returned to session s.
DividendReturned(s) == pc[s] = "idle" /\ loc[s].op = "calculate_dividend"

\* C13: calculate_dividend returns 0 whenever num_members <= 1, whatever the
\* other arguments, and raises no ZeroDivisionError.
C13_DividendZeroForOneMember ==
    \A s \in Sessions :
        DividendReturned(s)
        => /\ loc[s].res # ZeroDivisionError
           /\ loc[s].arg.num_members <= 1 => loc[s].res = Zero

\* It was called for one member with a discount above the commission.
C13_Witness ==
    /\ DividendReturned(1)
    /\ loc[1].arg.num_members = 1
    /\ loc[1].arg.chit_value = FromInt(100000)
    /\ loc[1].arg.winning_bid_discount_percentage = FromInt(5)
    /\ loc[1].arg.foreman_commission_percentage = FromInt(2)
    /\ loc[1].res = Zero

\* x * d / 100 - x * c / 100 as a fraction's numerator and denominator,
\* written out over the arguments' own numerators and denominators.
C14_NetNum(a) ==
    a.chit_value.num
    * (a.winning_bid_discount_percentage.num
         * a.foreman_commission_percentage.den
       - a.foreman_commission_percentage.num
         * a.winning_bid_discount_percentage.den)

C14_NetDen(a) ==
    100 * a.chit_value.den * a.winning_bid_discount_percentage.den
        * a.foreman_commission_percentage.den

\* C14: for num_members > 1 calculate_dividend returns exactly
\* (x*d/100 - x*c/100) / (num_members - 1), unclamped: the share is negative
\* when the commission exceeds the discount and the chit value is positive.
C14_DividendFormula ==
    \A s \in Sessions :
        (DividendReturned(s) /\ loc[s].arg.num_members > 1)
        => LET a == loc[s].arg
               r == loc[s].res
           IN  /\ r # ZeroDivisionError
               /\ r.den > 0
               /\ r.num * C14_NetDen(a) * (a.num_members - 1)
                    = r.den * C14_NetNum(a)
               /\ (C14_NetNum(a) < 0) => r.num < 0

\* 100000 at 2 % discount and 5 % commission among 20 members: -3000/19.
C14_Witness ==
    /\ DividendReturned(1)
    /\ loc[1].arg.num_members = 20
    /\ loc[1].arg.chit_value = FromInt(100000)
    /\ loc[1].arg.winning_bid_discount_percentage = FromInt(2)
    /\ loc[1].arg.foreman_commission_percentage = FromInt(5)
    /\ loc[1].res = [num |-> -3000, den |-> 19]

\* C16: a payment form submitted with an amount <= 0 is rejected and no row is
\* added; with any amount > 0 the payment is accepted; so every Payment row,
\* written or committed, has amountPaid > 0.
C16_PaymentAmountPositive ==
    /\ [](\A t \in {db, committed} : \A p \in t.payments : p.amountPaid > 0)
    /\ [][\A s \in Sessions :
            (pc[s] = "payment_form" /\ pc'[s] # pc[s])
            => IF loc'[s].arg.amount_paid <= 0
               THEN /\ loc'[s].res = "invalid"
                    /\ pc'[s] = "idle"
                    /\ db' = db /\ committed' = committed
               ELSE /\ loc'[s].res \in {"inserted", "raised"}
                    /\ loc'[s].res = "inserted"
                       => \E p \in db'.payments \ db.payments :
                             p.amountPaid = loc'[s].arg.amount_paid]_vars

\* A payment of amount 0 was refused after one of the smallest amount was
\* recorded.
C16_Witness ==
    /\ pc[1] = "idle" /\ loc[1].op = "payment" /\ loc[1].res = "invalid"
    /\ loc[1].arg.amount_paid = 0
    /\ \E p \in committed.payments : p.amountPaid = 1

\* The payments of one installment by one subscriber.
PaymentsOfPair(t, installment_id, subscriber_id) ==
    {p \in t.payments :
        p.installmentId = installment_id /\ p.subscriberId = subscriber_id}

\* The amounts of a set of payments, added up.
RECURSIVE TotalOf(_)
TotalOf(rows) ==
    IF rows = {} THEN 0
    ELSE LET r == CHOOSE x \in rows : TRUE
         IN  r.amountPaid + TotalOf(rows \ {r})

\* C17: a successful recordPayment appends exactly one new Payment row and
\* changes no other row of any table: the rows of its (installment, subscriber)
\* pair grow by one and their total by the amount, whatever was paid before;
\* the commit persists exactly that.
C17_PaymentAppends ==
    [][\A s \in Sessions :
         /\ (pc[s] = "payment_form" /\ pc'[s] = "payment_commit")
            => LET a == loc'[s].arg
                   before == PaymentsOfPair(db, a.installment_id,
                                            a.subscriber_id)
                   after == PaymentsOfPair(db', a.installment_id,
                                           a.subscriber_id)
               IN  /\ db.payments \subseteq db'.payments
                   /\ Cardinality(db'.payments \ db.payments) = 1
                   /\ Cardinality(after) = Cardinality(before) + 1
                   /\ TotalOf(after) = TotalOf(before) + a.amount_paid
                   /\ db'.installments = db.installments
                   /\ db'.enrollments = db.enrollments
                   /\ db'.groups = db.groups
                   /\ db'.subscribers = db.subscribers
         /\ (pc[s] = "payment_commit" /\ pc'[s] = "idle")
            => /\ loc'[s].res = "ok"
               /\ committed' = db /\ db' = db
               /\ committed.payments \subseteq committed'.payments
               /\ Cardinality(committed'.payments \ committed.payments) = 1
               /\ committed'.installments = committed.installments
               /\ committed'.enrollments = committed.enrollments]_vars

\* Two payments of installment 1 by subscriber 11 are recorded, 700 and 700
\* or 700 and 1: two rows, and their sum is the amount paid.
C17_Witness ==
    /\ pc[1] = "idle" /\ loc[1].op = "payment" /\ loc[1].res = "ok"
    /\ Cardinality(PaymentsOfPair(committed, 1, 11)) = 2
    /\ TotalOf(PaymentsOfPair(committed, 1, 11)) \in {701, 1400}
    /\ \A p \in PaymentsOfPair(committed, 1, 11) :
          p.amountPaid = loc[1].arg.amount_paid

\* C18: the payment status of an existing installment has exactly one entry
\* for every enrollment of the group, paid or not; its total is the sum of
\* that subscriber's payments of that installment alone, and its status is
\* Paid exactly when the sum is above 0.
C18_StatusPerEnrollment ==
    \A s \in Sessions :
        (/\ pc[s] = "idle" /\ loc[s].op = "dues"
         /\ loc[s].res \in {"ok", "empty", "notfound"})
        => LET a == loc[s].arg
               enrolled == {e \in db.enrollments : e.groupId = a.g}
           IN  /\ loc[s].res # "notfound"
               /\ Cardinality(a.list) = Cardinality(enrolled)
               /\ \A e \in enrolled :
                    \E entry \in a.list :
                       /\ entry.subscriberId = e.subscriberId
                       /\ entry.assignedChitNumber = e.assignedChitNumber
                       /\ \E i \in db.installments :
                            /\ i.groupId = a.g
                            /\ i.monthNumber = a.month_num
                            /\ entry.TotalPaid =
                                 TotalOf(PaymentsOfPair(db, i.id,
                                                        e.subscriberId))
                       /\ entry.Status = "Paid" <=> entry.TotalPaid > 0
                       /\ entry.Status \in {"Paid", "Due"}

\* Month 1 of group 1 is shown: subscriber 11 has paid the smallest amount
\* twice towards it and is Paid, subscriber 12 has paid nothing and is Due.
C18_Witness ==
    /\ pc[1] = "idle" /\ loc[1].op = "dues" /\ loc[1].res = "ok"
    /\ loc[1].arg.g = 1 /\ loc[1].arg.month_num = 1
    /\ \E entry \in loc[1].arg.list :
          /\ entry.subscriberId = 11 /\ entry.Status = "Paid"
          /\ entry.TotalPaid = 2
    /\ \E entry \in loc[1].arg.list :
          /\ entry.subscriberId = 12 /\ entry.Status = "Due"
          /\ entry.TotalPaid = 0

\* C19: an operation whose statement failed shows no success: whenever the
\* new_chit_form's handler has shown its success message, the chit it was
\* submitted with is in the committed Chits table.
C19_FailureReported ==
    \A s \in Sessions :
        (pc[s] = "idle" /\ loc[s].op = "new_chit" /\ loc[s].res = "ok")
        => \E c \in committed.chits :
              /\ c.chit_id = loc[s].arg.chit_id
              /\ c.chit_value = FromInt(loc[s].arg.chit_value)
              /\ c.duration = loc[s].arg.duration
              /\ c.foreman_commission_percentage
                   = loc[s].arg.foreman_commission

\* Every enrollment and installment of t references a group of t, and every
\* payment an installment of t.
ReferencesValid(t) ==
    /\ \A e \in t.enrollments : e.groupId \in IdsOf(t.groups)
    /\ \A i \in t.installments : i.groupId \in IdsOf(t.groups)
    /\ \A p \in t.payments : p.installmentId \in IdsOf(t.installments)

\* Group g and nothing else is gone from t in u: its enrollments, its
\* installments and their payments with it, every other row as it was.
GroupRemoved(t, u, g) ==
    /\ IdsOf(u.groups) = IdsOf(t.groups) \ {g}
    /\ u.groups \subseteq t.groups
    /\ u.enrollments = {e \in t.enrollments : e.groupId # g}
    /\ u.installments = {i \in t.installments : i.groupId # g}
    /\ u.payments =
          {p \in t.payments :
              \A i \in t.installments :
                 i.id = p.installmentId => i.groupId # g}

\* C20: deleting a group is all-or-nothing: a delete of a group that reports
\* success has committed the removal of the group with all its enrollments,
\* installments and their payments; one that reports failure leaves the group
\* and every row as committed before; and in every state, written or
\* committed, the references of enrollments, installments and payments are
\* valid.
C20_DeleteAllOrNothing ==
    /\ [](ReferencesValid(db) /\ ReferencesValid(committed))
    /\ [][\A s \in Sessions :
            /\ (/\ pc[s] = "delete_commit" /\ pc'[s] = "idle"
                /\ loc[s].arg.table_name = "ChitGroups")
               => /\ loc'[s].res = "ok"
                  /\ GroupRemoved(committed, committed', loc'[s].arg.item_id)
                  /\ db' = committed'
            /\ (/\ pc[s] = "delete_rollback" /\ pc'[s] = "idle"
                /\ loc[s].arg.table_name = "ChitGroups")
               => /\ loc'[s].res \in {"referential", "error"}
                  /\ committed' = committed
                  /\ db' = committed
                  /\ loc'[s].arg.item_id \in IdsOf(committed'.groups)]_vars

\* With the cascade policy group 1, which had two enrollments, its schedule
\* and a payment, was deleted; group 2 and its rows are still there.
C20_Witness ==
    /\ pc[1] = "idle" /\ loc[1].op = "delete" /\ loc[1].res = "ok"
    /\ loc[1].arg.table_name = "ChitGroups" /\ loc[1].arg.item_id = 1
    /\ db.onDelete = "CASCADE"
    /\ IdsOf(committed.groups) = {2}
    /\ committed.enrollments = {EnrollmentRow(11, 2, 1)}
    /\ committed.payments = {}
    /\ Cardinality(committed.installments) = MaxDuration
    /\ nextId > MaxIds

\* The add_group_form's handler has just run for session s.
GroupSubmitted(s) ==
    pc[s] = "idle" /\ loc'[s] # loc[s] /\ loc'[s].op = "group"

\* C21: a group create with an empty name, or a value, a subscriber count or
\* a duration that is not positive, is rejected and writes nothing; so every
\* group row, written or committed, has a name and a positive value,
\* subscriber count and duration.
C21_GroupCreateValidated ==
    /\ [](\A t \in {db, committed} : \A r \in t.groups :
             /\ r.name # 0
             /\ r.value > 0
             /\ r.numberOfSubscribers > 0
             /\ r.duration > 0)
    /\ [][\A s \in Sessions :
            (/\ GroupSubmitted(s)
             /\ \/ loc'[s].arg.name = 0
                \/ loc'[s].arg.value <= 0
                \/ loc'[s].arg.num_subscribers <= 0
                \/ loc'[s].arg.duration <= 0)
            => /\ loc'[s].res = "invalid"
               /\ pc'[s] = "idle"
               /\ db' = db /\ committed' = committed]_vars

\* A create with a name and a value but no subscribers was refused after a
\* valid one was committed.
C21_Witness ==
    /\ pc[1] = "idle" /\ loc[1].op = "group" /\ loc[1].res = "invalid"
    /\ loc[1].arg.name # 0 /\ loc[1].arg.value > 0
    /\ loc[1].arg.duration > 0 /\ loc[1].arg.num_subscribers = 0
    /\ Cardinality(committed.groups) = 2

\* A commission, when given, lies within 0..7.
CommissionInRange(commission) ==
    commission = NULL \/ (commission[1] >= 0 /\ commission[1] <= 7)

\* C22: a group create with a commission outside 0..7 is rejected; every
\* group row, written or committed, has no commission or one within 0..7.
C22_CommissionInRange ==
    /\ [](\A t \in {db, committed} : \A r \in t.groups :
             CommissionInRange(r.foremanCommissionPercentage))
    /\ [][\A s \in Sessions :
            (GroupSubmitted(s) /\ ~CommissionInRange(loc'[s].arg.commission))
            => /\ loc'[s].res = "invalid"
               /\ db' = db /\ committed' = committed]_vars

\* C23: a successful group create commits one new group, active, under an id
\* no group had before, and get_all_chit_groups returns it; the groups that
\* existed are unchanged.
C23_GroupCreatePersists ==
    [][\A s \in Sessions :
         (pc[s] = "group_commit" /\ pc'[s] = "idle")
         => /\ loc'[s].res = "ok"
            /\ committed.groups \subseteq committed'.groups
            /\ loc'[s].arg.group_id \notin IdsOf(committed.groups)
            /\ \E r \in committed'.groups \ committed.groups :
                  /\ committed'.groups = committed.groups \cup {r}
                  /\ r.id = loc'[s].arg.group_id
                  /\ r.isActive
                  /\ r.name = loc'[s].arg.name
                  /\ r \in get_all_chit_groups(committed')
                  /\ r \in get_all_chit_groups(db')]_vars

\* Two groups were created after the first, the second under the name of one
\* that exists; all three are listed.
C23_Witness ==
    /\ pc[1] = "idle" /\ loc[1].op = "group" /\ loc[1].res = "ok"
    /\ Cardinality(get_all_chit_groups(committed)) = 3
    /\ \E r \in committed.groups :
          r.id # loc[1].arg.group_id /\ r.name = loc[1].arg.name

\* No two subscribers of t share a phone number.
PhonesUnique(t) ==
    \A a, b \in t.subscribers : a.phoneNumber = b.phoneNumber => a = b

\* C24: creating a subscriber under the phone number of an existing one fails,
\* with the duplicate error when the key refused it (errno 1062), and leaves
\* the subscribers as they were; no two
\* subscribers, written or committed, share a phone number.
C24_PhoneUnique ==
    /\ [](PhonesUnique(db) /\ PhonesUnique(committed))
    /\ [][\A s \in Sessions :
            /\ (/\ pc[s] = "idle" /\ loc'[s] # loc[s]
                /\ loc'[s].op = "subscriber"
                /\ loc'[s].arg.name # 0
                /\ \E r \in db.subscribers :
                      r.phoneNumber = loc'[s].arg.phone)
               => /\ pc'[s] = "subscriber_rollback"
                  /\ loc'[s].arg.errno \in {1062, 2013}
                  /\ db' = db /\ committed' = committed
            /\ (/\ pc[s] = "subscriber_rollback" /\ pc'[s] = "idle"
                /\ loc[s].arg.errno = 1062)
               => /\ loc'[s].res = "duplicate"
                  /\ db'.subscribers = db.subscribers
                  /\ committed' = committed
                  /\ db' = committed]_vars

\* A second subscriber was added under phone number 12, and then a create
\* under that number was refused as a duplicate.
C24_Witness ==
    /\ pc[1] = "idle" /\ loc[1].op = "subscriber" /\ loc[1].res = "duplicate"
    /\ loc[1].arg.phone = 12
    /\ Cardinality(committed.subscribers) = 2
    /\ \E r \in committed.subscribers :
          r.phoneNumber = 12 /\ r.name # loc[1].arg.name

FreshInstallment(i) ==
    /\ i.isAuctionConducted = FALSE
    /\ i.isCompleted = FALSE
    /\ i.auctionPrizeAmount = NULL
    /\ i.auctionWinnerId = NULL

\* C26: every installment generate creates starts with isAuctionConducted
\* FALSE, isCompleted FALSE and no auction prize and winner, as inserted and
\* as committed.
C26_InstallmentsStartOpen ==
    [][\A s \in Sessions :
         /\ (pc[s] = "gen_insert" /\ pc'[s] = "gen_commit")
            => /\ db'.installments # db.installments
               /\ \A i \in db'.installments \ db.installments :
                     FreshInstallment(i)
         /\ (pc[s] = "gen_commit" /\ pc'[s] = "idle")
            => /\ committed'.installments # committed.installments
               /\ \A i \in committed'.installments \ committed.installments :
                     FreshInstallment(i)]_vars

\* The schedule of group 1 was generated and committed, all of it open.
C26_Witness ==
    /\ pc[1] = "idle" /\ loc[1].op = "generate" /\ loc[1].res = "ok"
    /\ Cardinality(committed.installments) = MaxDuration
    /\ \A i \in committed.installments : FreshInstallment(i)

\* The auction flag of an installment tells that prize and winner are set.
AuctionFlagMatches(i) ==
    i.isAuctionConducted
    <=> (i.auctionWinnerId # NULL /\ i.auctionPrizeAmount # NULL)

\* An installment conducted in t is still conducted in u if it is still there.
StaysConducted(t, u) ==
    \A i \in t.installments :
        i.isAuctionConducted
        => \A j \in u.installments : j.id = i.id => j.isAuctionConducted

\* C28: in every state every installment has isAuctionConducted TRUE exactly
\* when it has both a winner and a prize, and an installment once conducted
\* stays conducted.
C28_AuctionFlagIffRecorded ==
    /\ [](\A t \in {db, committed} : \A i \in t.installments :
             AuctionFlagMatches(i))
    /\ [][StaysConducted(db, db') /\ StaysConducted(committed, committed')]_vars

\* Installment of month 1 has its auction recorded at prize 0, the other one
\* is open, and a later auction form was submitted and failed.
C28_Witness ==
    /\ pc[1] = "idle" /\ loc[1].op = "auction" /\ loc[1].res = "error"
    /\ \E i \in committed.installments :
          /\ i.monthNumber = 1 /\ i.isAuctionConducted
          /\ i.auctionPrizeAmount = Some(0) /\ i.auctionWinnerId # NULL
    /\ \E i \in committed.installments :
          /\ ~i.isAuctionConducted
          /\ i.auctionPrizeAmount = NULL /\ i.auctionWinnerId = NULL

\* C29: no operation sets isCompleted: every installment, written or
\* committed, has isCompleted FALSE, whatever was recorded for it.
C29_NeverCompleted ==
    \A t \in {db, committed} : \A i \in t.installments : i.isCompleted = FALSE

\* Every installment has its auction recorded and the month-1 installment is
\* paid by both subscribers; isCompleted is still FALSE.
C29_Witness ==
    /\ committed.installments # {}
    /\ \A i \in committed.installments :
          i.isAuctionConducted /\ ~i.isCompleted
    /\ \E i \in committed.installments :
          /\ i.monthNumber = 1
          /\ \A u \in SubscriberIds :
                \E p \in committed.payments :
                   p.installmentId = i.id /\ p.subscriberId = u

\* C27: enroll bounds neither the assigned number nor the number of
\* enrollments by the group's numberOfSubscribers: whenever the subscriber is
\* not yet in the group and the number is free the INSERT is made, unless it
\* fails for a reason other than the keys (errno 2013), and its commit
\* reports success, whatever the number and however many are enrolled.
C27_EnrollUnbounded ==
    [][\A s \in Sessions :
         /\ (/\ pc[s] = "enroll_form"
             /\ pc'[s] \in {"enroll_commit", "enroll_rollback"}
             /\ ~EnrolledIn(db, loc'[s].arg.subscriber_id, loc'[s].arg.g)
             /\ ~NumberTaken(db, loc'[s].arg.g, loc'[s].arg.assigned_number))
            => \/ /\ pc'[s] = "enroll_commit"
                  /\ EnrollmentRow(loc'[s].arg.subscriber_id, loc'[s].arg.g,
                                   loc'[s].arg.assigned_number)
                       \in db'.enrollments
               \/ /\ pc'[s] = "enroll_rollback"
                  /\ loc'[s].arg.errno = 2013
         /\ (pc[s] = "enroll_commit" /\ pc'[s] = "idle")
            => /\ loc'[s].res = "ok"
               /\ EnrollmentRow(loc'[s].arg.subscriber_id, loc'[s].arg.g,
                                loc'[s].arg.assigned_number)
                    \in committed'.enrollments]_vars

\* Group 1, made for one subscriber, holds two enrollments, the second under
\* number 2.
C27_Witness ==
    /\ pc[1] = "idle" /\ loc[1].op = "enroll" /\ loc[1].res = "ok"
    /\ loc[1].arg.g = 1 /\ loc[1].arg.assigned_number = 2
    /\ get_group_details_by_id(committed, 1).numberOfSubscribers = 1
    /\ Cardinality({e \in committed.enrollments : e.groupId = 1}) = 2
    /\ loc[1].arg.assigned_number
         > get_group_details_by_id(committed, 1).numberOfSubscribers

====
